---- MODULE Spec2Model ----
(***************************************************************************)
(* Model of lc_task: the Task base class (state merge engine, run          *)
(* lifecycle, "|" chaining) in its two generations:                        *)
(*   modern  src/src/lc_task/task.py  (dataclass tasks, raise_exceptions)  *)
(*   legacy  src/lc_task/task.py      (slots tasks with a free-form state) *)
(*                                                                         *)
(* Python values are modelled as strings: "None" is None, "True"/"False"   *)
(* the booleans, "R" the reference to the task's own result object, the    *)
(* members of Errs are exception instances.  An Optional[set] or           *)
(* Optional[dict] argument is <<>> for None and <<x>> for the value x, so  *)
(* that None and the empty collection stay distinct.                       *)
(*                                                                         *)
(* MergeObject is merge_object on data names (declared fields, undeclared  *)
(* names, the reserved names) and supported sources, where it always       *)
(* returns; MergeObjectOutcome adds the calls that raise (a source of an   *)
(* unsupported type, a pair naming a method).  Mappings are iterated in    *)
(* the order of NameOrder.  Errors are instances of Exception.             *)
(***************************************************************************)
EXTENDS Integers, Sequences, FiniteSets, TLC

VARIABLES
    tasks,      \* task id -> task instance
    pc,         \* task id -> position of the task's current run()
    pending,    \* task id -> error waiting to leave run() once cleanup is done
    ret,        \* task id -> how the task's last run() ended
    runs,       \* task id -> number of run() calls started
    trace,      \* task id -> hooks called by, and exit of, the task's last run()
    thrown,     \* task id -> error _perform_task raised in the last run()
    captured,   \* task id -> some run() of the task captured an error
    log,        \* merges, run() entries and returns of the pipeline, in order
    call,       \* the last merge_object call: arguments, target before it
    pipe,       \* the "|" pipeline being evaluated
    cli,        \* the command line: config, parsers built, argv parsed, dispatch
    heap        \* which dict object each task's state is, and the collections
                \* a merge_object call was handed, as the call leaves them

vars == <<tasks, pc, pending, ret, runs, trace, thrown, captured, log, call, pipe, cli, heap>>

----------------------------------------------------------------------------
(* Bounds *)

\* largest include / exclude set a caller passes
MaxFilter == 1
\* largest mapping (dict or Namespace source, overwrite) a caller passes
MaxPairs == 1
\* run() calls per task instance
MaxRuns == 2
MaxMerges == 2
\* configure_command_parser calls on one root parser
MaxConfigured == 3

----------------------------------------------------------------------------
(* Values and names *)

NoneV == "None"

\* values carried by sources and by overwrite
Vals == {"None", "v1"}

\* exceptions a _perform_task or _preamble hook raises
Errs == {"E1", "E2"}

\* default of the declared field foo (tests: foo = "bar") and of color
DefaultFoo == "dflt"

TaskIds == {1, 2}

\* names callers use in mappings and in overwrite
Names == {"foo", "bar", "color", "result"}

\* names callers list in include and exclude
FilterNames == {"foo", "bar", "color"}

\* dir() order of every name that occurs in a pair
NameOrder ==
    <<"args", "bar", "color", "err", "foo", "func", "raise_exceptions", "result",
      "run", "state", "subcommand">>

EmptyMap == [n \in {} |-> NoneV]

Put(m, k, v) == [n \in (DOMAIN m) \cup {k} |-> IF n = k THEN v ELSE m[n]]

NoState == [alloc |-> FALSE, map |-> EmptyMap]

\* bool(x) of a merged value
Truthy(v) == v \notin {"None", "False"}

\* variant of SetGiven for which only None is false
SetGiven_NotNone(opt) == opt # <<>>

\* bool(s) of an Optional[set]: None and the empty set are both false
SetGiven(opt) == opt # <<>> /\ opt[1] # {}

----------------------------------------------------------------------------
(* Construction *)

\* TaskResult(): err, plus the subclass field foo of the tests' TaskResult1
NewResult == [err |-> NoneV, foo |-> DefaultFoo]

\* modern Task(raise_exceptions=rexc): __post_init__ creates the result and
\* adds raise_exceptions and result to the class's _exclude_from_merge
ModernTask(classExcl, rexc) ==
    [shape |-> "modern",
     excl  |-> classExcl \cup {"raise_exceptions", "result"},
     attrs |-> [raise_exceptions |-> rexc, result |-> "R",
                foo |-> DefaultFoo, color |-> DefaultFoo],
     state |-> NoState,
     res   |-> NewResult]

\* legacy Task(state, result): both default to None; foo is the slot of the
\* tests' Task1
LegacyTask(classExcl, state, result) ==
    [shape |-> "legacy",
     excl  |-> classExcl,
     attrs |-> [result |-> result, foo |-> DefaultFoo],
     state |-> state,
     res   |-> NewResult]

----------------------------------------------------------------------------
(* Attribute access *)

\* hasattr(self, name) for the names of the universe
HasAttr(t, name) ==
    IF t.shape = "modern"
    THEN name \in DOMAIN t.attrs
    ELSE name \in (DOMAIN t.attrs) \cup {"state"}

SetAttr(t, name, value) == [t EXCEPT !.attrs[name] = value]

----------------------------------------------------------------------------
(* Pair extraction *)

RECURSIVE PairsIn(_, _)
\* the entries of mapping m as a tuple of (name, value) pairs
PairsIn(order, m) ==
    IF order = <<>> THEN <<>>
    ELSE (IF Head(order) \in DOMAIN m
          THEN << <<Head(order), m[Head(order)]>> >>
          ELSE <<>>) \o PairsIn(Tail(order), m)

\* the public non-callable attributes of a Task in dir() order
TaskSlots(t) ==
    IF t.shape = "modern"
    THEN t.attrs
    ELSE Put(t.attrs, "state", IF t.state.alloc THEN "dict" ELSE NoneV)

\* _gen_pairs_from_slots_object
GenPairsFromSlotsObject(obj) ==
    IF obj.kind = "task"
    THEN PairsIn(NameOrder, TaskSlots(obj.task))
    ELSE PairsIn(NameOrder, obj.res)

\* variant of GenPairsFromObject that leaves out the state entries of a Task
GenPairsFromObject_SlotsOnly(shape, obj) ==
    IF obj.kind = "none" THEN <<>>
    ELSE IF obj.kind \in {"dict", "namespace"} THEN PairsIn(NameOrder, obj.items)
    ELSE GenPairsFromSlotsObject(obj)

\* variant of GenPairsFromObject that reads None as an empty result object
GenPairsFromObject_NoneAsResult(shape, obj) ==
    IF obj.kind = "none" THEN PairsIn(NameOrder, NewResult)
    ELSE IF obj.kind \in {"dict", "namespace"} THEN PairsIn(NameOrder, obj.items)
    ELSE IF obj.kind = "task" /\ shape = "legacy"
         THEN (IF obj.task.state.alloc
               THEN PairsIn(NameOrder, obj.task.state.map)
               ELSE <<>>) \o GenPairsFromSlotsObject(obj)
    ELSE GenPairsFromSlotsObject(obj)

\* _gen_pairs_from_object; shape selects the generation of the code
GenPairsFromObject(shape, obj) ==
    IF obj.kind = "none" THEN <<>>
    ELSE IF obj.kind \in {"dict", "namespace"} THEN PairsIn(NameOrder, obj.items)
    ELSE IF obj.kind = "task" /\ shape = "legacy"
         THEN (IF obj.task.state.alloc
               THEN PairsIn(NameOrder, obj.task.state.map)
               ELSE <<>>) \o GenPairsFromSlotsObject(obj)
    ELSE GenPairsFromSlotsObject(obj)

----------------------------------------------------------------------------
(* State merge engine *)

\* variant of MergeValueWithName that inserts every name into the state
MergeValueWithName_StateOnly(t, name, value) ==
    IF name \in {"result", "state"} THEN t
    ELSE [t EXCEPT !.state = [alloc |-> TRUE, map |-> Put(t.state.map, name, value)]]

\* variant of MergeValueWithName that does not reserve result
MergeValueWithName_ResultMerged(t, name, value) ==
    IF name = "state" THEN t
    ELSE IF HasAttr(t, name) THEN SetAttr(t, name, value)
    ELSE [t EXCEPT !.state = [alloc |-> TRUE, map |-> Put(t.state.map, name, value)]]

\* legacy Task._merge_value_with_name
MergeValueWithName(t, name, value) ==
    IF name \in {"result", "state"} THEN t
    ELSE IF HasAttr(t, name) THEN SetAttr(t, name, value)
    ELSE [t EXCEPT !.state = [alloc |-> TRUE, map |-> Put(t.state.map, name, value)]]

\* variant of IncludeGiven that keeps include when exclude is given too
IncludeGiven_Kept(include, exclude) == SetGiven(include)

\* include_given after "if exclude_given and include_given: ... = False"
IncludeGiven(include, exclude) == SetGiven(include) /\ ~SetGiven(exclude)

\* variant of EffectiveExclude that leaves out the class's permanent set
EffectiveExclude_CallerOnly(t, exclude) ==
    IF SetGiven(exclude) THEN exclude[1] ELSE {}

\* exclude = (exclude or set()) | self._exclude_from_merge
EffectiveExclude(t, exclude) ==
    (IF SetGiven(exclude) THEN exclude[1] ELSE {}) \cup t.excl

\* variant of ShouldMerge in which a name listed in include is always merged
ShouldMerge_IncludeFirst(t, name, include, exclude) ==
    LET include_given == IncludeGiven(include, exclude)
        excl == EffectiveExclude(t, exclude)
    IN  (include_given /\ name \in include[1])
        \/ (name \notin excl /\ ~include_given)

\* the condition under which the loop over items merges a pair
ShouldMerge(t, name, include, exclude) ==
    LET include_given == IncludeGiven(include, exclude)
        excl == EffectiveExclude(t, exclude)
        exclude_given == SetGiven(exclude) \/ excl # {}
        exclude_include_given == exclude_given \/ include_given
    IN  ~exclude_include_given
        \/ (name \notin excl /\ (~include_given \/ name \in include[1]))

\* one iteration of "for name, value in items"
MergeItem(t, name, value, include, exclude) ==
    IF t.shape = "modern"
    THEN IF HasAttr(t, name) /\ ShouldMerge(t, name, include, exclude)
         THEN SetAttr(t, name, value)
         ELSE t
    ELSE IF ShouldMerge(t, name, include, exclude)
         THEN MergeValueWithName(t, name, value)
         ELSE t

RECURSIVE MergeItems(_, _, _, _)
MergeItems(t, items, include, exclude) ==
    IF items = <<>> THEN t
    ELSE MergeItems(MergeItem(t, Head(items)[1], Head(items)[2], include, exclude),
                    Tail(items), include, exclude)

\* one iteration of "for name, value in overwrite.items()"
OverwriteItem(t, name, value) ==
    IF t.shape = "modern"
    THEN IF HasAttr(t, name) THEN SetAttr(t, name, value) ELSE t
    ELSE MergeValueWithName(t, name, value)

RECURSIVE OverwriteItems(_, _)
OverwriteItems(t, items) ==
    IF items = <<>> THEN t
    ELSE OverwriteItems(OverwriteItem(t, Head(items)[1], Head(items)[2]), Tail(items))

\* "if overwrite is not None: ..."
ApplyOverwrite(t, overwrite) ==
    IF overwrite = <<>> THEN t
    ELSE OverwriteItems(t, PairsIn(NameOrder, overwrite[1]))

\* variant of MergeObject that applies overwrite before the source's pairs
MergeObject_OverwriteFirst(t, obj, include, exclude, overwrite) ==
    MergeItems(ApplyOverwrite(t, overwrite),
               GenPairsFromObject(t.shape, obj), include, exclude)

\* Task.merge_object: the target after the call
MergeObject(t, obj, include, exclude, overwrite) ==
    ApplyOverwrite(
        MergeItems(t, GenPairsFromObject(t.shape, obj), include, exclude),
        overwrite)

----------------------------------------------------------------------------
(* merge_object calls that raise *)

\* names the task exposes that are no fields: its methods
MethodNames == {"run"}

\* _gen_pairs_from_object raises TypeError: the modern else branch takes
\* every object that defines __slots__, the legacy one takes none
GenPairsRaises(shape, obj) ==
    IF shape = "modern" THEN obj.kind = "other"
    ELSE obj.kind \in {"slotted", "other"}

Returned(t) == [task |-> t, raised |-> NoneV]

\* variant of MergeItemOutcome that sets every pair passing the filter,
\* exposed by the target or not
MergeItemOutcome_NoHasAttr(out, name, value, include, exclude) ==
    IF out.raised # NoneV THEN out
    ELSE IF ~ShouldMerge(out.task, name, include, exclude) THEN out
    ELSE IF name \in MethodNames THEN [out EXCEPT !.raised = "AttributeError"]
    ELSE IF out.task.shape = "modern"
         THEN Returned([out.task EXCEPT !.attrs = Put(out.task.attrs, name, value)])
         ELSE Returned(MergeValueWithName(out.task, name, value))

\* one iteration of "for name, value in items": hasattr is true of a method
\* name and setattr on it raises AttributeError (read-only attribute), which
\* ends the call
MergeItemOutcome(out, name, value, include, exclude) ==
    IF out.raised # NoneV THEN out
    ELSE IF name \in MethodNames
         THEN IF ShouldMerge(out.task, name, include, exclude)
              THEN [out EXCEPT !.raised = "AttributeError"]
              ELSE out
         ELSE Returned(MergeItem(out.task, name, value, include, exclude))

RECURSIVE MergeItemsOutcome(_, _, _, _)
MergeItemsOutcome(out, items, include, exclude) ==
    IF items = <<>> THEN out
    ELSE MergeItemsOutcome(
             MergeItemOutcome(out, Head(items)[1], Head(items)[2], include, exclude),
             Tail(items), include, exclude)

\* one iteration of "for name, value in overwrite.items()"
OverwriteItemOutcome(out, name, value) ==
    IF out.raised # NoneV THEN out
    ELSE IF name \in MethodNames THEN [out EXCEPT !.raised = "AttributeError"]
    ELSE Returned(OverwriteItem(out.task, name, value))

RECURSIVE OverwriteItemsOutcome(_, _)
OverwriteItemsOutcome(out, items) ==
    IF items = <<>> THEN out
    ELSE OverwriteItemsOutcome(
             OverwriteItemOutcome(out, Head(items)[1], Head(items)[2]), Tail(items))

\* Task.merge_object: the target when the call ends, and the error it raised
MergeObjectOutcome(t, obj, include, exclude, overwrite) ==
    IF GenPairsRaises(t.shape, obj)
    THEN [task |-> t, raised |-> "TypeError"]
    ELSE OverwriteItemsOutcome(
             MergeItemsOutcome(Returned(t), GenPairsFromObject(t.shape, obj),
                               include, exclude),
             IF overwrite = <<>> THEN <<>> ELSE PairsIn(NameOrder, overwrite[1]))

----------------------------------------------------------------------------
(* Arguments callers pass *)

\* Optional[Set[str]]: None, or a set of at most MaxFilter names
FilterArgs ==
    {<<>>} \cup {<<s>> : s \in {x \in SUBSET FilterNames : Cardinality(x) <= MaxFilter}}

\* mappings of at most MaxPairs names to values
Mappings ==
    UNION {[d -> Vals] : d \in {x \in SUBSET Names : Cardinality(x) <= MaxPairs}}

\* Optional[Dict[str, Any]]
OverwriteArgs == {<<>>} \cup {<<m>> : m \in Mappings}

\* TaskResult instances handed to merge_object or standing left of "|"
ResultObjects == [err : {NoneV} \cup Errs, foo : Vals]

\* Task instances used as a merge source by a target of the same generation
SourceTasks(shape) ==
    IF shape = "modern"
    THEN {[ModernTask({}, "True") EXCEPT !.attrs.foo = "v1"]}
    ELSE {[LegacyTask({}, NoState, NoneV) EXCEPT !.attrs.foo = "v1"],
          [LegacyTask({}, [alloc |-> TRUE, map |-> Put(Put(EmptyMap, "color", "v1"), "foo", NoneV)], NoneV)
              EXCEPT !.attrs.foo = "v1"]}

NoneSource == [kind |-> "none"]
DictSources == {[kind |-> "dict", items |-> m] : m \in Mappings}
NamespaceSources == {[kind |-> "namespace", items |-> m] : m \in Mappings}
ResultSources == {[kind |-> "result", res |-> r] : r \in ResultObjects}
TaskSources(shape) == {[kind |-> "task", task |-> s] : s \in SourceTasks(shape)}

\* the permanent exclusion sets of the task classes under test
ClassExcludes == {{}, {"color"}}

\* targets as their constructors leave them
FreshTargets ==
    {ModernTask(e, "False") : e \in ClassExcludes}
    \cup {LegacyTask(e, NoState, NoneV) : e \in ClassExcludes}
    \cup {LegacyTask({}, [alloc |-> TRUE, map |-> Put(EmptyMap, "bar", "v1")], NoneV)}

----------------------------------------------------------------------------
(* Run lifecycle *)

\* self.result refers to a result object
HasResultObject(t) == t.attrs.result = "R"

\* variant of HandleError that records the error only on a result that is
\* already there
HandleError_NoResultCreated(t, e) ==
    IF HasResultObject(t) THEN [t EXCEPT !.res.err = e] ELSE t

\* variant of HandleError that does not record the error
HandleError_NotRecorded(t, e) == t

\* the body of "except Exception as exc" up to the decision to re-raise:
\* the task once the error is recorded
HandleError(t, e) ==
    IF t.shape = "modern"
    THEN IF HasResultObject(t) THEN [t EXCEPT !.res.err = e] ELSE t
    ELSE IF t.attrs.result = NoneV
         THEN [t EXCEPT !.attrs.result = "R", !.res = [NewResult EXCEPT !.err = e]]
         ELSE [t EXCEPT !.res.err = e]

\* the error that leaves the except block, "None" when it is captured; setting
\* err on a result that is no object raises AttributeError in its place
ErrorInFlight(t, e) ==
    IF t.shape = "modern"
    THEN IF ~HasResultObject(t) THEN "AttributeError"
         ELSE IF Truthy(t.attrs.raise_exceptions) THEN e ELSE NoneV
    ELSE NoneV

\* variant of PreambleRaised in which the except block of run() acts
PreambleRaised_Recorded(t, e) == HandleError(t, e)

\* the task when _preamble raises e: self._preamble() stands before the try
\* statement, so no handler of run() touches the task
PreambleRaised(t, e) == t

\* value the task classes under test store in result.foo when they succeed
PerformOutput == "out"

\* variant of PerformTask after which the result carries no error
PerformTask_ErrCleared(t) ==
    IF HasResultObject(t) THEN [t EXCEPT !.res.foo = PerformOutput, !.res.err = NoneV] ELSE t

\* _perform_task of the task classes under test: sets an attribute on
\* self.result when there is a result object to set it on
PerformTask(t) ==
    IF HasResultObject(t) THEN [t EXCEPT !.res.foo = PerformOutput] ELSE t

\* variant of CleanupRuns with _postamble after the try statement, which a
\* re-raised error skips
CleanupRuns_NotWhenRaising(p) == p \in {"Succeeded", "Failed"}

\* variant of CleanupRuns with _postamble at the end of the try body
CleanupRuns_OnlyOnSuccess(p) == p = "Succeeded"

\* the positions from which _postamble runs before run() is left: the finally
\* clause (modern), the statement after the try (legacy)
CleanupRuns(p) == p \in {"Succeeded", "Failed", "Propagating"}

----------------------------------------------------------------------------
(* State shared by the specifications *)

NoCall == [op |-> "none"]

\* no command line parser is being built
NoCli == [status |-> "off"]

\* object identity is not followed
NoHeap == [status |-> "off"]

Idle == [i \in TaskIds |-> "NotStarted"]
NoPending == [i \in TaskIds |-> NoneV]
NoRet == [i \in TaskIds |-> [kind |-> "none", val |-> NoneV]]
NoRuns == [i \in TaskIds |-> 0]
NoTrace == [i \in TaskIds |-> <<>>]
NoCapture == [i \in TaskIds |-> FALSE]
NoPipe == [status |-> "off", stage |-> 0, r |-> [null |-> TRUE, res |-> NewResult],
           acc |-> [null |-> TRUE, owner |-> 0]]

\* target i .merge_object(obj, include, exclude, overwrite)
DoMerge(i, obj, include, exclude, overwrite) ==
    /\ call' = [op |-> "merge", target |-> i, obj |-> obj, include |-> include,
                exclude |-> exclude, overwrite |-> overwrite, before |-> tasks[i]]
    /\ tasks' = [tasks EXCEPT ![i] = MergeObject(tasks[i], obj, include, exclude, overwrite)]

\* run() is entered by a direct call, or by __ror__ once it has merged
MayEnterRun(i) ==
    /\ pc[i] \in {"NotStarted", "Done"}
    /\ \A j \in TaskIds : pc[j] \in {"NotStarted", "Done"}
    /\ runs[i] < MaxRuns
    /\ pipe.status = "off" \/ (pipe.status = "merged" /\ pipe.stage = i)

EnterRun(i) ==
    /\ runs' = [runs EXCEPT ![i] = @ + 1]
    /\ thrown' = [thrown EXCEPT ![i] = NoneV]
    /\ pending' = [pending EXCEPT ![i] = NoneV]
    /\ pipe' = IF pipe.status = "merged" THEN [pipe EXCEPT !.status = "running"] ELSE pipe
    /\ log' = IF pipe.status = "merged" THEN Append(log, <<"run", i>>) ELSE log

\* run(): _preamble is called and returns
RunPreamble(i) ==
    /\ MayEnterRun(i)
    /\ EnterRun(i)
    /\ pc' = [pc EXCEPT ![i] = "PreambleRun"]
    /\ trace' = [trace EXCEPT ![i] = <<"_preamble">>]
    /\ ret' = [ret EXCEPT ![i] = [kind |-> "none", val |-> NoneV]]
    /\ UNCHANGED <<heap, cli, tasks, captured, call>>

\* run(): _preamble is called and raises; nothing in run() handles it
RunPreambleRaises(i) ==
    /\ MayEnterRun(i)
    /\ EnterRun(i)
    /\ \E e \in Errs :
          /\ trace' = [trace EXCEPT ![i] = <<"_preamble", "raise">>]
          /\ ret' = [ret EXCEPT ![i] = [kind |-> "raised", val |-> e]]
          /\ tasks' = [tasks EXCEPT ![i] = PreambleRaised(tasks[i], e)]
    /\ pc' = [pc EXCEPT ![i] = "Done"]
    /\ UNCHANGED <<heap, cli, captured, call>>

\* run(): _perform_task is called and returns
PerformTaskReturns(i) ==
    /\ pc[i] = "PreambleRun"
    /\ pc' = [pc EXCEPT ![i] = "Succeeded"]
    /\ tasks' = [tasks EXCEPT ![i] = PerformTask(tasks[i])]
    /\ trace' = [trace EXCEPT ![i] = Append(@, "_perform_task")]
    /\ UNCHANGED <<heap, cli, pending, ret, runs, thrown, captured, log, call, pipe>>

\* run(): _perform_task is called and raises; the except block runs
PerformTaskRaises(i) ==
    /\ pc[i] = "PreambleRun"
    /\ \E e \in Errs :
          /\ tasks' = [tasks EXCEPT ![i] = HandleError(tasks[i], e)]
          /\ pending' = [pending EXCEPT ![i] = ErrorInFlight(tasks[i], e)]
          /\ thrown' = [thrown EXCEPT ![i] = e]
          /\ pc' = [pc EXCEPT ![i] =
                      IF ErrorInFlight(tasks[i], e) = NoneV THEN "Failed" ELSE "Propagating"]
          /\ captured' = [captured EXCEPT ![i] = @ \/ ErrorInFlight(tasks[i], e) = NoneV]
    /\ trace' = [trace EXCEPT ![i] = Append(@, "_perform_task")]
    /\ UNCHANGED <<heap, cli, ret, runs, log, call, pipe>>

\* run(): _postamble is called, then run() returns self.result or the error in
\* flight leaves it
RunPostamble(i) ==
    /\ pc[i] \in {"Succeeded", "Failed", "Propagating"}
    /\ trace' = [trace EXCEPT ![i] =
                    @ \o (IF CleanupRuns(pc[i]) THEN <<"_postamble">> ELSE <<>>)
                      \o (IF pending[i] = NoneV THEN <<"return">> ELSE <<"raise">>)]
    /\ ret' = [ret EXCEPT ![i] =
                  IF pending[i] = NoneV
                  THEN [kind |-> "returned", val |-> tasks[i].attrs.result]
                  ELSE [kind |-> "raised", val |-> pending[i]]]
    /\ pending' = [pending EXCEPT ![i] = NoneV]
    /\ pc' = [pc EXCEPT ![i] = "Done"]
    /\ UNCHANGED <<heap, cli, tasks, runs, thrown, captured, log, call, pipe>>

----------------------------------------------------------------------------
(* Chaining: r | t1 | t2 *)

\* the last task of the expression
LastStage == Cardinality(TaskIds)

\* the object standing left of "|": None, r, or the result a stage returned
AccSource(acc) ==
    IF acc.null THEN NoneSource
    ELSE [kind |-> "result",
          res |-> IF acc.owner = 0 THEN pipe.r.res ELSE tasks[acc.owner].res]

\* variant of RorMergeObject that takes the err on the left as the task's own
RorMergeObject_ErrAdopted(t, task_result) ==
    LET m == MergeObject(t, task_result, <<>>, <<>>, <<>>)
    IN  IF task_result.kind = "result" THEN [m EXCEPT !.res.err = task_result.res.err] ELSE m

\* variant of RorMergeObject that runs the task without merging
RorMergeObject_Skipped(t, task_result) == t

\* __ror__: self.merge_object(task_result)
RorMergeObject(t, task_result) == MergeObject(t, task_result, <<>>, <<>>, <<>>)

\* the expression r | t1 | t2 starts to be evaluated
PipeStart ==
    /\ pipe.status = "off"
    /\ \A j \in TaskIds : pc[j] \in {"NotStarted", "Done"}
    /\ pipe' = [pipe EXCEPT !.status = "on", !.acc = [null |-> pipe.r.null, owner |-> 0]]
    /\ UNCHANGED <<heap, cli, tasks, pc, pending, ret, runs, trace, thrown, captured, log, call>>

\* t_i.__ror__(acc): the merge; run() is entered next
RorMerge(i) ==
    /\ pipe.status = "on"
    /\ pipe.stage = i - 1
    /\ call' = [op |-> "merge", target |-> i, obj |-> AccSource(pipe.acc),
                include |-> <<>>, exclude |-> <<>>, overwrite |-> <<>>,
                before |-> tasks[i]]
    /\ tasks' = [tasks EXCEPT ![i] = RorMergeObject(tasks[i], AccSource(pipe.acc))]
    /\ pipe' = [pipe EXCEPT !.status = "merged", !.stage = i]
    /\ log' = Append(log, <<"merge", i>>)
    /\ UNCHANGED <<heap, cli, pc, pending, ret, runs, trace, thrown, captured>>

\* t_i.__ror__(acc): "return self.run()", or the error of run() leaves the
\* whole expression
RorReturn(i) ==
    /\ pipe.status = "running"
    /\ pipe.stage = i
    /\ pc[i] = "Done"
    /\ pipe' = IF ret[i].kind = "returned"
               THEN [pipe EXCEPT !.status = IF i = LastStage THEN "done" ELSE "on",
                                 !.acc = [null |-> ret[i].val = NoneV, owner |-> i]]
               ELSE [pipe EXCEPT !.status = "aborted"]
    /\ log' = Append(log, <<"done", i>>)
    /\ UNCHANGED <<heap, cli, tasks, pc, pending, ret, runs, trace, thrown, captured, call>>

\* results standing at the head of a pipeline
PipeHeads ==
    {[null |-> TRUE, res |-> NewResult]}
    \cup {[null |-> FALSE, res |-> [err |-> e, foo |-> "v1"]] : e \in {NoneV, "E1"}}

\* the tasks of a pipeline as constructed
PipeTasks(shape) ==
    IF shape = "modern"
    THEN {ModernTask({}, rexc) : rexc \in {"False", "True"}}
    ELSE {LegacyTask({}, NoState, result) : result \in {NoneV, "R"}}

----------------------------------------------------------------------------
(* Spec: tasks are constructed, run directly, then chained with "|" *)

Init ==
    /\ \E shape \in {"modern", "legacy"} :
          tasks \in [TaskIds -> PipeTasks(shape)]
    /\ \E r \in PipeHeads : pipe = [NoPipe EXCEPT !.r = r]
    /\ pc = Idle
    /\ pending = NoPending
    /\ ret = NoRet
    /\ runs = NoRuns
    /\ trace = NoTrace
    /\ thrown = NoPending
    /\ captured = NoCapture
    /\ log = <<>>
    /\ call = NoCall
    /\ cli = NoCli
    /\ heap = NoHeap

Next ==
    \/ \E i \in TaskIds : RunPreamble(i)
    \/ \E i \in TaskIds : RunPreambleRaises(i)
    \/ \E i \in TaskIds : PerformTaskReturns(i)
    \/ \E i \in TaskIds : PerformTaskRaises(i)
    \/ \E i \in TaskIds : RunPostamble(i)
    \/ PipeStart
    \/ \E i \in TaskIds : RorMerge(i)
    \/ \E i \in TaskIds : RorReturn(i)

Spec == Init /\ [][Next]_vars

----------------------------------------------------------------------------
(* SpecMerge: one merge_object call on a freshly constructed target *)

InitMerge ==
    /\ \E t \in FreshTargets : tasks = [i \in TaskIds |-> t]
    /\ pc = Idle
    /\ pending = NoPending
    /\ ret = NoRet
    /\ runs = NoRuns
    /\ trace = NoTrace
    /\ thrown = NoPending
    /\ captured = NoCapture
    /\ log = <<>>
    /\ call = NoCall
    /\ cli = NoCli
    /\ pipe = NoPipe
    /\ heap = NoHeap

MergeNone ==
    /\ call.op = "none"
    /\ \E include \in FilterArgs, exclude \in FilterArgs, overwrite \in OverwriteArgs :
          DoMerge(1, NoneSource, include, exclude, overwrite)
    /\ UNCHANGED <<heap, cli, pc, pending, ret, runs, trace, thrown, captured, log, pipe>>

MergeDict ==
    /\ call.op = "none"
    /\ \E obj \in DictSources,
          include \in FilterArgs, exclude \in FilterArgs, overwrite \in OverwriteArgs :
          DoMerge(1, obj, include, exclude, overwrite)
    /\ UNCHANGED <<heap, cli, pc, pending, ret, runs, trace, thrown, captured, log, pipe>>

MergeNamespace ==
    /\ call.op = "none"
    /\ \E obj \in NamespaceSources,
          include \in FilterArgs, exclude \in FilterArgs, overwrite \in OverwriteArgs :
          DoMerge(1, obj, include, exclude, overwrite)
    /\ UNCHANGED <<heap, cli, pc, pending, ret, runs, trace, thrown, captured, log, pipe>>

MergeTaskResult ==
    /\ call.op = "none"
    /\ \E obj \in ResultSources,
          include \in FilterArgs, exclude \in FilterArgs, overwrite \in OverwriteArgs :
          DoMerge(1, obj, include, exclude, overwrite)
    /\ UNCHANGED <<heap, cli, pc, pending, ret, runs, trace, thrown, captured, log, pipe>>

MergeTask ==
    /\ call.op = "none"
    /\ \E obj \in TaskSources(tasks[1].shape),
          include \in FilterArgs, exclude \in FilterArgs, overwrite \in OverwriteArgs :
          DoMerge(1, obj, include, exclude, overwrite)
    /\ UNCHANGED <<heap, cli, pc, pending, ret, runs, trace, thrown, captured, log, pipe>>

NextMerge == MergeNone \/ MergeDict \/ MergeNamespace \/ MergeTaskResult \/ MergeTask

SpecMerge == InitMerge /\ [][NextMerge]_vars

----------------------------------------------------------------------------
(* SpecApi: any sequence of merge_object and run calls on one task *)

\* the tasks as constructed
ApiTargets == PipeTasks("modern") \cup PipeTasks("legacy")

\* one pair naming a field or the result
ApiMappings == {Put(EmptyMap, n, v) : n \in {"foo", "result"}, v \in Vals}

\* the objects merged: None and dictionaries
ApiSources == {NoneSource} \cup {[kind |-> "dict", items |-> m] : m \in ApiMappings}

\* the overwrite arguments: None and dictionaries
ApiOverwrites == {<<>>} \cup {<<m>> : m \in ApiMappings}

InitApi ==
    /\ \E t \in ApiTargets : tasks = [i \in TaskIds |-> t]
    /\ pc = Idle
    /\ pending = NoPending
    /\ ret = NoRet
    /\ runs = NoRuns
    /\ trace = NoTrace
    /\ thrown = NoPending
    /\ captured = NoCapture
    /\ log = <<>>
    /\ call = NoCall
    /\ cli = NoCli
    /\ pipe = NoPipe
    /\ heap = NoHeap

\* merge_object between two runs of the task
ApiMerge ==
    /\ pc[1] \in {"NotStarted", "Done"}
    /\ Len(log) < MaxMerges
    /\ \E obj \in ApiSources, overwrite \in ApiOverwrites :
          DoMerge(1, obj, <<>>, <<>>, overwrite)
    /\ log' = Append(log, <<"merge", 1>>)
    /\ UNCHANGED <<heap, cli, pc, pending, ret, runs, trace, thrown, captured, pipe>>

NextApi ==
    \/ ApiMerge
    \/ RunPreamble(1)
    \/ RunPreambleRaises(1)
    \/ PerformTaskReturns(1)
    \/ PerformTaskRaises(1)
    \/ RunPostamble(1)

SpecApi == InitApi /\ [][NextApi]_vars

----------------------------------------------------------------------------
(* SpecNames: merge_object calls, one after the other, with sources of     *)
(* every type and with names of every kind                                 *)

\* the targets as constructed
NamesTargets ==
    {ModernTask({}, "False"), LegacyTask({}, NoState, NoneV), LegacyTask({}, NoState, "R")}

\* dictionaries naming a field, an undeclared name, a reserved name, a method
NamesMappings ==
    {Put(EmptyMap, n, "v1") : n \in {"foo", "bar", "result", "state", "run"}}
    \cup {Put(Put(EmptyMap, "foo", "v1"), n, "v1") : n \in {"bar", "run"}}

\* objects of no supported type: one whose class defines __slots__, one
\* whose class does not
ForeignSources == {[kind |-> "slotted", res |-> Put(EmptyMap, "foo", "v1")],
                   [kind |-> "other"]}

NamesOverwrites ==
    {<<>>} \cup {<<Put(EmptyMap, n, "v2")>> : n \in {"result", "state", "run"}}

InitNames ==
    /\ \E t \in NamesTargets : tasks = [i \in TaskIds |-> t]
    /\ pc = Idle
    /\ pending = NoPending
    /\ ret = NoRet
    /\ runs = NoRuns
    /\ trace = NoTrace
    /\ thrown = NoPending
    /\ captured = NoCapture
    /\ log = <<>>
    /\ call = NoCall
    /\ cli = NoCli
    /\ pipe = NoPipe
    /\ heap = NoHeap

\* the exclude arguments: None, and a set naming the method
NamesExcludes == {<<>>, <<{"run"}>>}

\* target 1 .merge_object(obj, None, exclude, overwrite), returning or raising
DoMergeOutcome(obj, exclude, overwrite) ==
    /\ call' = [op |-> "merge", target |-> 1, obj |-> obj, include |-> <<>>,
                exclude |-> exclude, overwrite |-> overwrite, before |-> tasks[1],
                raised |-> MergeObjectOutcome(tasks[1], obj, <<>>, exclude, overwrite).raised]
    /\ tasks' = [tasks EXCEPT ![1] =
                    MergeObjectOutcome(tasks[1], obj, <<>>, exclude, overwrite).task]

MergeNamed ==
    /\ Len(log) < MaxMerges
    /\ \E m \in NamesMappings, exclude \in NamesExcludes, overwrite \in NamesOverwrites :
          DoMergeOutcome([kind |-> "dict", items |-> m], exclude, overwrite)
    /\ log' = Append(log, <<"merge", 1>>)
    /\ UNCHANGED <<heap, cli, pc, pending, ret, runs, trace, thrown, captured, pipe>>

MergeForeign ==
    /\ Len(log) < MaxMerges
    /\ \E obj \in ForeignSources, overwrite \in NamesOverwrites :
          DoMergeOutcome(obj, <<>>, overwrite)
    /\ log' = Append(log, <<"merge", 1>>)
    /\ UNCHANGED <<heap, cli, pc, pending, ret, runs, trace, thrown, captured, pipe>>

MergeFromTask ==
    /\ Len(log) < MaxMerges
    /\ \E obj \in {NoneSource} \cup TaskSources(tasks[1].shape),
          overwrite \in NamesOverwrites :
          DoMergeOutcome(obj, <<>>, overwrite)
    /\ log' = Append(log, <<"merge", 1>>)
    /\ UNCHANGED <<heap, cli, pc, pending, ret, runs, trace, thrown, captured, pipe>>

NextNames == MergeNamed \/ MergeForeign \/ MergeFromTask

SpecNames == InitNames /\ [][NextNames]_vars

----------------------------------------------------------------------------
(* Command line: parser configs *)

\* keys of a parser config: tuples (command or (command, alias...), description)
GroupInv == [kind |-> "group", command |-> "inv", aliases |-> {"i"},
             description |-> "Invertebrate animals"]
GroupDeep == [kind |-> "group", command |-> "deep", aliases |-> {},
              description |-> "Deep sea"]

\* keys of a parser config: CLI task classes, with the arguments their
\* gen_command_parser adds, the task class their _gen_task instantiates
\* (modern), and the slots they declare and those of them that the
\* constructor assigns (legacy); the legacy FishTask declares the slot of its
\* argument and assigns nothing to it
FishTask == [kind |-> "clitask", cls |-> "FishTask", command |-> "fish", aliases |-> {"f"},
             description |-> "Fish task.", args |-> <<"foo">>, task_cls |-> "Task1",
             slots |-> {"foo"}, inits |-> {}, rexc |-> "False", task_rexc |-> "False"]
WormsTask == [kind |-> "clitask", cls |-> "WormsTask", command |-> "worms", aliases |-> {},
              description |-> "Worms task.", args |-> <<>>, task_cls |-> NoneV,
              slots |-> {}, inits |-> {}, rexc |-> "False", task_rexc |-> "False"]

\* a CLI task class whose constructor assigns the slot it declares, as the
\* tests' Task1 does
SlotInitTask == [kind |-> "clitask", cls |-> "SlotInitTask", command |-> "slotinit",
                 aliases |-> {}, description |-> "Slot assigned.", args |-> <<"foo">>,
                 task_cls |-> NoneV, slots |-> {"foo"}, inits |-> {"foo"},
                 rexc |-> "False", task_rexc |-> "False"]

\* CLI task classes that set the class default of raise_exceptions: on the
\* CLI task itself, on the task class its _gen_task instantiates
RaisingFishTask == [FishTask EXCEPT !.cls = "RaisingFishTask", !.rexc = "True"]
FishRaisingTask == [FishTask EXCEPT !.cls = "FishRaisingTask", !.task_rexc = "True"]

\* CLI task classes that leave command or description at the default
NoCommandTask == [kind |-> "clitask", cls |-> "NoCommandTask", command |-> "", aliases |-> {},
                  description |-> "No command.", args |-> <<>>, task_cls |-> NoneV,
                  slots |-> {}, inits |-> {}, rexc |-> "False", task_rexc |-> "False"]
NoDescriptionTask == [kind |-> "clitask", cls |-> "NoDescriptionTask", command |-> "nodesc",
                      aliases |-> {}, description |-> "", args |-> <<>>, task_cls |-> NoneV,
                      slots |-> {}, inits |-> {}, rexc |-> "False", task_rexc |-> "False"]

\* keys of no legal shape: a Task class that is no CLI task, a string
PlainTask == [kind |-> "task", cls |-> "PlainTask"]
StringKey == [kind |-> "string"]

GoodKeys == {GroupInv, FishTask, WormsTask}
BadKeys == {NoCommandTask, NoDescriptionTask, PlainTask, StringKey}
Keys == GoodKeys \cup BadKeys \cup {GroupDeep, SlotInitTask, RaisingFishTask, FishRaisingTask}

Entry(k, sub) == [key |-> k, sub |-> sub]

\* child configs: empty, one key, two keys
SubConfigs ==
    {<<>>} \cup {<<Entry(k, <<>>)>> : k \in GoodKeys \cup BadKeys}
    \cup {<<Entry(WormsTask, <<>>), Entry(FishTask, <<>>)>>}

\* parser configs, as the sequence of their items in iteration order
Configs ==
    {<<>>}
    \cup {<<Entry(k, sub)>> : k \in GoodKeys \cup BadKeys, sub \in SubConfigs}
    \cup UNION {{<<Entry(k1, <<>>), Entry(k2, sub)>> :
                    k2 \in (GoodKeys \cup BadKeys) \ {k1},
                    sub \in {<<>>, <<Entry(FishTask, <<>>)>>}} :
                k1 \in {GroupInv, WormsTask}}
    \cup {<<Entry(GroupInv, <<Entry(k, <<Entry(GroupDeep, <<>>)>>)>>)>> :
              k \in {FishTask, WormsTask, PlainTask, StringKey}}

\* the legacy config type has no aliases: tuples are (command, description)
\* and the task classes have COMMAND and DESCRIPTION only
RECURSIVE ForShape(_, _)
ForShape(shape, config) ==
    IF shape = "modern" \/ config = <<>> THEN config
    ELSE <<Entry(IF Head(config).key.kind \in {"group", "clitask"}
                 THEN [Head(config).key EXCEPT !.aliases = {}]
                 ELSE Head(config).key,
                 ForShape(shape, Head(config).sub))>>
         \o ForShape(shape, Tail(config))

----------------------------------------------------------------------------
(* Command line: the parsers gen_cli_parser builds *)

\* a parser: the func default, its positional arguments, whether a
\* subcommand dispatcher (dest="subcommand") is attached, and the dispatcher's
\* choices, label -> parser
NewParser == [func |-> NoneV, args |-> <<>>, subs |-> FALSE, choices |-> EmptyMap]

\* the root parser of the tests: set_defaults(func=print_help)
RootParser == [NewParser EXCEPT !.func = "print_help"]

RootId == <<>>

\* variant of AddParser that registers the parser under the command only
AddParser_CommandOnly(parsers, parent, command, aliases) ==
    LET id == Append(parent, command)
    IN  [q \in (DOMAIN parsers) \cup {id} |->
            IF q = id THEN NewParser
            ELSE IF q = parent
                 THEN [parsers[q] EXCEPT !.choices =
                          [l \in (DOMAIN parsers[q].choices) \cup {command} |->
                              IF l = command THEN id ELSE parsers[q].choices[l]]]
                 ELSE parsers[q]]

\* subparsers.add_parser(command, aliases=aliases): the new parser is
\* registered under the command and under every alias
AddParser(parsers, parent, command, aliases) ==
    LET id == Append(parent, command)
        labels == {command} \cup aliases
    IN  [q \in (DOMAIN parsers) \cup {id} |->
            IF q = id THEN NewParser
            ELSE IF q = parent
                 THEN [parsers[q] EXCEPT !.choices =
                          [l \in (DOMAIN parsers[q].choices) \cup labels |->
                              IF l \in labels THEN id ELSE parsers[q].choices[l]]]
                 ELSE parsers[q]]

\* variant of LacksCommandOrDescription that asks for the command only
LacksCommandOrDescription_CommandOnly(k) == k.command = ""

\* CliTask.gen_command_parser raises ValueError
LacksCommandOrDescription(k) == k.command = "" \/ k.description = ""

\* CliTask.gen_command_parser(parser): set_defaults(func=cls.__run_command),
\* then the arguments the task class adds
GenCommandParser(parsers, id, k) ==
    [parsers EXCEPT ![id].func = k.cls, ![id].args = @ \o k.args]

\* a frame of gen_cli_parser: the parser it attaches to, the items left to
\* iterate, and the local subcommand_parser (<<>> while unbound)
Frame(id, items) == [parser |-> id, items |-> items, cur |-> <<>>]

\* gen_cli_parser(parser, config) is entered with a non-empty config:
\* add_subparsers fails on a parser that already has a dispatcher
EnterGenCliParser(c, id, config) ==
    IF c.parsers[id].subs
    THEN [c EXCEPT !.status = "raised", !.error = "ArgumentError"]
    ELSE [c EXCEPT !.parsers[id].subs = TRUE,
                   !.stack = <<Frame(id, config)>> \o @]

\* variant of CallGenCliParser without the test for an empty config
CallGenCliParser_NoEmptyTest(c, id, config) == EnterGenCliParser(c, id, config)

\* gen_cli_parser(parser, config): "if parser_config: ..."; an empty config
\* leaves everything as it is
CallGenCliParser(c, id, config) ==
    IF config = <<>> THEN c ELSE EnterGenCliParser(c, id, config)

\* variant of Descend that never generates the parsers of the child config
Descend_NoChildren(c, cur, sub) ==
    [c EXCEPT !.stack[1].items = Tail(@), !.stack[1].cur = cur]

\* the end of a loop iteration: "if subparser_config: gen_cli_parser(...)",
\* with subcommand_parser bound to cur by this iteration or by an earlier one
Descend(c, cur, sub) ==
    LET d == [c EXCEPT !.stack[1].items = Tail(@), !.stack[1].cur = cur]
    IN  IF sub = <<>> THEN d
        ELSE IF cur = <<>>
             THEN [c EXCEPT !.status = "raised", !.error = "UnboundLocalError"]
             ELSE EnterGenCliParser(d, cur[1], sub)

----------------------------------------------------------------------------
(* Command line: parse_args *)

Over(m1, m2) ==
    [n \in (DOMAIN m1) \cup (DOMAIN m2) |-> IF n \in DOMAIN m2 THEN m2[n] ELSE m1[n]]

Rejected == [ok |-> FALSE, fields |-> EmptyMap]

\* what a parser contributes to the namespace before its dispatcher acts:
\* its func default, its positional arguments, subcommand = None
OwnFields(p, argv) ==
    Over(Over(IF p.func = NoneV THEN EmptyMap ELSE Put(EmptyMap, "func", p.func),
              [n \in {p.args[i] : i \in DOMAIN p.args} |->
                  argv[CHOOSE i \in DOMAIN p.args : p.args[i] = n]]),
         IF p.subs THEN Put(EmptyMap, "subcommand", NoneV) ELSE EmptyMap)

RECURSIVE ParseFrom(_, _, _)
\* parser.parse_args(argv): the positionals, then the dispatcher, which
\* stores the label typed under subcommand and copies every attribute of the
\* chosen parser's namespace over the parent's
ParseFrom(parsers, id, argv) ==
    LET p == parsers[id]
        k == Len(p.args)
        rest == SubSeq(argv, k + 1, Len(argv))
    IN  IF Len(argv) < k THEN Rejected
        ELSE IF rest = <<>> THEN [ok |-> TRUE, fields |-> OwnFields(p, argv)]
        ELSE IF ~p.subs THEN Rejected
        ELSE IF Head(rest) \notin DOMAIN p.choices THEN Rejected
        ELSE LET sub == ParseFrom(parsers, p.choices[Head(rest)], Tail(rest))
             IN  IF ~sub.ok THEN Rejected
                 ELSE [ok |-> TRUE,
                       fields |-> Over(Put(OwnFields(p, argv), "subcommand", Head(rest)),
                                       sub.fields)]

\* words typed on the command line: labels, an argument value, another word
Tokens == {"inv", "i", "fish", "f", "worms", "deep", "v1", "x"}

Argvs ==
    {<<>>} \cup {<<a>> : a \in Tokens} \cup {<<a, b>> : a, b \in Tokens}
    \cup {<<a, b, c>> : a, b, c \in Tokens}

----------------------------------------------------------------------------
(* Command line: the function bound to a parser *)

\* the CLI task class of this name
ClassOf(cls) == CHOOSE k \in Keys : k.kind = "clitask" /\ k.cls = cls

\* variant of DelFunc that leaves func in the namespace
DelFunc_Kept(fields) == fields

\* "if hasattr(args, 'func'): del args.func"
DelFunc(fields) == [n \in (DOMAIN fields) \ {"func"} |-> fields[n]]

\* legacy cls(): state and result are assigned None; a slot of the class
\* that the constructor does not assign is no attribute of the instance
LegacyInstance(k) ==
    [LegacyTask({}, NoState, NoneV) EXCEPT
        !.attrs = [n \in {"result"} \cup k.inits |-> IF n = "result" THEN NoneV ELSE DefaultFoo]]

\* the instance __run_command creates: legacy cls().merge_object(args),
\* modern cls(args=args), which keeps the namespace in the field args
CommandInstance(shape, k, bag) ==
    IF shape = "legacy"
    THEN MergeObject(LegacyInstance(k),
                     [kind |-> "namespace", items |-> bag], <<>>, <<>>, <<>>)
    ELSE [ModernTask({}, k.rexc) EXCEPT !.attrs = Put(@, "args", "bag")]

\* modern CliTask._gen_task: self._task_cls().merge_object(self.args)
GenTask(k, bag) ==
    MergeObject(ModernTask({}, k.task_rexc),
                [kind |-> "namespace", items |-> bag], <<>>, <<>>, <<>>)

\* what run() of the task _gen_task made can do: _preamble raises,
\* _perform_task raises, or both return
InnerOutcomes ==
    {<<"ok">>} \cup {<<"perform", e>> : e \in Errs} \cup {<<"preamble", e>> : e \in Errs}

\* variant of InnerRun in which an error the task has captured leaves its
\* run() all the same
InnerRun_CapturedSurfaces(g, outcome) ==
    IF outcome[1] = "ok" THEN [task |-> PerformTask(g), escaped |-> NoneV]
    ELSE IF outcome[1] = "perform"
    THEN [task |-> HandleError(g, outcome[2]), escaped |-> outcome[2]]
    ELSE [task |-> PreambleRaised(g, outcome[2]), escaped |-> outcome[2]]

\* task.run() inside CliTask._perform_task: the task afterwards and the error
\* that leaves run(), None when it returns; the result run() returns is
\* dropped by the caller
InnerRun(g, outcome) ==
    IF outcome[1] = "ok" THEN [task |-> PerformTask(g), escaped |-> NoneV]
    ELSE IF outcome[1] = "perform"
    THEN [task |-> HandleError(g, outcome[2]), escaped |-> ErrorInFlight(g, outcome[2])]
    ELSE [task |-> PreambleRaised(g, outcome[2]), escaped |-> outcome[2]]

----------------------------------------------------------------------------
(* SpecCli: a parser is built from a config, an argv is parsed, the bound    *)
(* function is called                                                      *)

InitCli ==
    /\ \E shape \in {"modern", "legacy"}, config \in Configs :
          /\ cli = [status |-> "ready", shape |-> shape,
                    config |-> ForShape(shape, config),
                    parsers |-> [q \in {RootId} |-> RootParser],
                    stack |-> <<>>, error |-> NoneV,
                    own |-> NoneV,
                    argv |-> <<>>, ns |-> [ok |-> FALSE, fields |-> EmptyMap],
                    bag |-> EmptyMap, result |-> NoneV]
          /\ tasks = [i \in TaskIds |->
                         IF shape = "modern" THEN ModernTask({}, "False")
                         ELSE LegacyTask({}, NoState, NoneV)]
    /\ pc = Idle
    /\ pending = NoPending
    /\ ret = NoRet
    /\ runs = NoRuns
    /\ trace = NoTrace
    /\ thrown = NoPending
    /\ captured = NoCapture
    /\ log = <<>>
    /\ call = NoCall
    /\ pipe = NoPipe
    /\ heap = NoHeap

\* gen_cli_parser(root_parser, parser_config) is called
GenCliParser ==
    /\ cli.status = "ready"
    /\ LET c == CallGenCliParser([cli EXCEPT !.status = "building"], RootId, cli.config)
       IN  cli' = IF c.status = "building" /\ c.stack = <<>>
                  THEN [c EXCEPT !.status = "built"]
                  ELSE c
    /\ UNCHANGED <<heap, tasks, pc, pending, ret, runs, trace, thrown, captured, log, call, pipe>>

\* loop iteration, key is a tuple
BuildGroup ==
    /\ cli.status = "building" /\ cli.stack[1].items # <<>>
    /\ LET f == cli.stack[1]
           e == Head(f.items)
           id == Append(f.parser, e.key.command)
       IN  /\ e.key.kind = "group"
           /\ cli' = Descend([cli EXCEPT !.parsers =
                                 AddParser(@, f.parser, e.key.command, e.key.aliases)],
                             <<id>>, e.sub)
    /\ UNCHANGED <<heap, tasks, pc, pending, ret, runs, trace, thrown, captured, log, call, pipe>>

\* loop iteration, key is a CLI task class: add_parser, then
\* gen_command_parser on the parser added
BuildCliTask ==
    /\ cli.status = "building" /\ cli.stack[1].items # <<>>
    /\ LET f == cli.stack[1]
           e == Head(f.items)
           id == Append(f.parser, e.key.command)
           added == [cli EXCEPT !.parsers =
                        AddParser(@, f.parser, e.key.command, e.key.aliases)]
       IN  /\ e.key.kind = "clitask"
           /\ cli' = IF LacksCommandOrDescription(e.key)
                     THEN [added EXCEPT !.status = "raised", !.error = "ValueError"]
                     ELSE Descend([added EXCEPT !.parsers = GenCommandParser(@, id, e.key)],
                                  <<id>>, e.sub)
    /\ UNCHANGED <<heap, tasks, pc, pending, ret, runs, trace, thrown, captured, log, call, pipe>>

\* loop iteration, key is neither: issubclass raises TypeError for a key that
\* is no class; for a class that is no CLI task the legacy else branch raises
\* TypeError, the modern code has no else branch and goes on with
\* subcommand_parser as the iterations before left it
BuildOtherKey ==
    /\ cli.status = "building" /\ cli.stack[1].items # <<>>
    /\ LET f == cli.stack[1]
           e == Head(f.items)
       IN  /\ e.key.kind \in {"task", "string"}
           /\ cli' = IF e.key.kind = "string" \/ cli.shape = "legacy"
                     THEN [cli EXCEPT !.status = "raised", !.error = "TypeError"]
                     ELSE Descend(cli, f.cur, e.sub)
    /\ UNCHANGED <<heap, tasks, pc, pending, ret, runs, trace, thrown, captured, log, call, pipe>>

\* the loop of a gen_cli_parser call is over: return root_parser
BuildReturn ==
    /\ cli.status = "building" /\ cli.stack[1].items = <<>>
    /\ cli' = [cli EXCEPT !.stack = Tail(@),
                          !.status = IF Len(cli.stack) = 1 THEN "built" ELSE "building"]
    /\ UNCHANGED <<heap, tasks, pc, pending, ret, runs, trace, thrown, captured, log, call, pipe>>

\* cls.gen_command_parser() without a parent parser, as run_command calls it
GenOwnParser ==
    /\ cli.status = "ready" /\ cli.config = <<>>
    /\ \E k \in {FishTask, WormsTask, SlotInitTask, RaisingFishTask, FishRaisingTask,
                NoCommandTask, NoDescriptionTask} :
          cli' = IF LacksCommandOrDescription(k)
                 THEN [cli EXCEPT !.status = "raised", !.error = "ValueError", !.own = k.cls]
                 ELSE [cli EXCEPT !.status = "built", !.own = k.cls,
                                  !.parsers = GenCommandParser(
                                      [q \in {RootId} |-> NewParser], RootId, k)]
    /\ UNCHANGED <<heap, tasks, pc, pending, ret, runs, trace, thrown, captured, log, call, pipe>>

\* parser.parse_args(argv)
ParseArgs ==
    /\ cli.status = "built"
    /\ \E argv \in Argvs :
          cli' = [cli EXCEPT !.status = "parsed", !.argv = argv,
                             !.ns = ParseFrom(cli.parsers, RootId, argv)]
    /\ UNCHANGED <<heap, tasks, pc, pending, ret, runs, trace, thrown, captured, log, call, pipe>>

\* args.func(args), func bound to a CLI task class: __run_command up to the
\* call of run()
RunCommand ==
    /\ cli.status = "parsed" /\ cli.ns.ok
    /\ "func" \in DOMAIN cli.ns.fields
    /\ cli.ns.fields.func # "print_help"
    /\ cli' = [cli EXCEPT !.status = "dispatched", !.bag = DelFunc(cli.ns.fields)]
    /\ tasks' = [tasks EXCEPT ![1] = CommandInstance(cli.shape, ClassOf(cli.ns.fields.func),
                                                    DelFunc(cli.ns.fields))]
    /\ UNCHANGED <<heap, pc, pending, ret, runs, trace, thrown, captured, log, call, pipe>>

\* run() of the instance: _preamble
CliRunPreamble ==
    /\ cli.status = "dispatched" /\ pc[1] = "NotStarted"
    /\ RunPreamble(1)

\* run() of a modern instance: CliTask._perform_task runs the task _gen_task
\* makes, which keeps its outcome in its own result; an error that leaves
\* that task's run() is handled by the except block of the instance's run()
CliPerformTask ==
    /\ cli.status = "dispatched" /\ cli.shape = "modern"
    /\ pc[1] = "PreambleRun"
    /\ LET k == ClassOf(cli.ns.fields.func)
       IN  IF k.task_cls = NoneV
           THEN /\ pc' = [pc EXCEPT ![1] = "Succeeded"]
                /\ UNCHANGED <<tasks, pending, thrown, captured>>
           ELSE \E outcome \in InnerOutcomes :
                   LET g == GenTask(k, cli.bag)
                       r == InnerRun(g, outcome)
                       inflight == ErrorInFlight(tasks[1], r.escaped)
                       kept == outcome[1] = "perform" /\ ErrorInFlight(g, outcome[2]) = NoneV
                   IN  IF r.escaped = NoneV
                       THEN /\ tasks' = [tasks EXCEPT ![2] = r.task]
                            /\ pc' = [pc EXCEPT ![1] = "Succeeded"]
                            /\ thrown' = [thrown EXCEPT ![2] =
                                             IF outcome[1] = "ok" THEN NoneV ELSE outcome[2]]
                            /\ captured' = [captured EXCEPT ![2] = kept]
                            /\ UNCHANGED pending
                       ELSE /\ tasks' = [tasks EXCEPT ![2] = r.task,
                                                      ![1] = HandleError(tasks[1], r.escaped)]
                            /\ pending' = [pending EXCEPT ![1] = inflight]
                            /\ thrown' = [thrown EXCEPT ![1] = r.escaped, ![2] = outcome[2]]
                            /\ pc' = [pc EXCEPT ![1] =
                                         IF inflight = NoneV THEN "Failed" ELSE "Propagating"]
                            /\ captured' = [captured EXCEPT ![1] = inflight = NoneV,
                                                            ![2] = kept]
    /\ trace' = [trace EXCEPT ![1] = Append(@, "_perform_task")]
    /\ UNCHANGED <<heap, cli, ret, runs, log, call, pipe>>

\* run() of a legacy instance: the _perform_task of the task class returns
CliPerformReturns ==
    /\ cli.status = "dispatched" /\ cli.shape = "legacy"
    /\ PerformTaskReturns(1)

\* run() of a legacy instance: the _perform_task of the task class raises
CliPerformRaises ==
    /\ cli.status = "dispatched" /\ cli.shape = "legacy"
    /\ PerformTaskRaises(1)

\* run() of the instance: _postamble and the return
CliPostamble ==
    /\ cli.status = "dispatched"
    /\ RunPostamble(1)

\* __run_command returns what run() returned
CliReturn ==
    /\ cli.status = "dispatched" /\ pc[1] = "Done"
    /\ cli' = [cli EXCEPT !.status = "returned", !.result = ret[1]]
    /\ UNCHANGED <<heap, tasks, pc, pending, ret, runs, trace, thrown, captured, log, call, pipe>>

NextCli ==
    \/ GenCliParser
    \/ GenOwnParser
    \/ ParseArgs
    \/ RunCommand
    \/ CliRunPreamble
    \/ CliPerformTask
    \/ CliPerformReturns
    \/ CliPerformRaises
    \/ CliPostamble
    \/ CliReturn
    \/ BuildGroup
    \/ BuildCliTask
    \/ BuildOtherKey
    \/ BuildReturn

SpecCli == InitCli /\ [][NextCli]_vars

----------------------------------------------------------------------------
(* Path-based registration: src/task.py CLITask.configure_command_parser   *)
(* over src/argparse_utils.py.  A parser is its _actions list (the help    *)
(* action, arguments, the subparsers action), whether add_subparsers has   *)
(* been called on it, the choices of its subparsers action and its         *)
(* description; parsers are numbered in the order of their creation.       *)

\* CLI task classes with a command path: (label, description) pairs, then
\* COMMAND
TestCLITask == [cls |-> "TestCLITask", command |-> "test",
                description |-> "Test subcommand", path |-> <<>>]
HopTestCLITask == [cls |-> "HopTestCLITask", command |-> "test",
                   description |-> "Test subcommand",
                   path |-> << <<"hop", "and you don't stop">> >>]
HopScotchTestCLITask == [cls |-> "HopScotchTestCLITask", command |-> "test",
                         description |-> "Test subcommand",
                         path |-> << <<"hop", "and you don't stop">>, <<"scotch", "butter">> >>]
\* a class whose command is the path label of the others, without description
\* for the label
HopCLITask == [cls |-> "HopCLITask", command |-> "scotch",
               description |-> "Scotch subcommand", path |-> << <<"hop", "">> >>]

PathClasses == {TestCLITask, HopTestCLITask, HopScotchTestCLITask, HopCLITask}

\* ArgumentParser(...): add_help puts the help action first
PathParser(actions, description) ==
    [actions |-> actions, subs |-> FALSE, choices |-> EmptyMap, description |-> description]

\* root parsers: as in the tests; with add_help=False; with an argument of
\* its own added before any registration
RootParsers ==
    {PathParser(<<"help">>, "This is a test parser"),
     PathParser(<<>>, "This is a test parser"),
     PathParser(<<"help", "arg">>, "This is a test parser")}

PathRoot == 1

\* has_subcommands
HasSubcommands(p) == p.subs /\ Len(p.actions) > 1

\* get_subcommands: the action at index 1, if it is the subparsers action
GetSubcommands(p) == HasSubcommands(p) /\ p.actions[2] = "subs"

\* get_subcommand: the parser's number, 0 for None
GetSubcommand(parsers, id, label) ==
    IF ~GetSubcommands(parsers[id]) \/ label \notin DOMAIN parsers[id].choices THEN 0
    ELSE parsers[id].choices[label]

\* add_subcommand: the parsers after the call and the parser returned;
\* add_subparsers on a parser that has a subparsers action ends in
\* parser.error, which exits
AddSubcommand(parsers, id, label, description) ==
    LET p == parsers[id]
    IN  IF ~GetSubcommands(p) /\ p.subs
        THEN [parsers |-> parsers, at |-> 0, raised |-> "SystemExit"]
        ELSE LET q == IF GetSubcommands(p) THEN p
                      ELSE [p EXCEPT !.subs = TRUE, !.actions = Append(@, "subs")]
             IN  IF label \notin DOMAIN q.choices
                 THEN LET new == Len(parsers) + 1
                      IN  [parsers |-> Append([parsers EXCEPT ![id] =
                                                  [q EXCEPT !.choices = Put(@, label, new)]],
                                              PathParser(<<"help">>, description)),
                           at |-> new, raised |-> NoneV]
                 ELSE LET old == q.choices[label]
                      IN  [parsers |-> [parsers EXCEPT
                                           ![id] = q,
                                           ![old].description =
                                               IF description # "" /\ @ = "" THEN description ELSE @],
                           at |-> old, raised |-> NoneV]

RECURSIVE AddPath(_, _, _)
\* "for command, description in cls._COMMAND_PATH: ..." and the final
\* add_subcommand, as one list of (label, description) pairs
AddPath(parsers, id, pairs) ==
    IF pairs = <<>> THEN [parsers |-> parsers, at |-> id, raised |-> NoneV]
    ELSE LET r == AddSubcommand(parsers, id, Head(pairs)[1], Head(pairs)[2])
         IN  IF r.raised # NoneV THEN r
             ELSE AddPath(r.parsers, r.at, Tail(pairs))

\* a class's full path: the _COMMAND_PATH pairs, then (COMMAND, DESCRIPTION)
FullPath(k) == Append(k.path, <<k.command, k.description>>)

\* cls.configure_command_parser(parser) with a parser given
ConfigureCommandParserOn(parsers, k) == AddPath(parsers, PathRoot, FullPath(k))

RECURSIVE Resolve(_, _, _)
\* get_subcommand applied label after label from parser id; 0 when a label
\* does not resolve
Resolve(parsers, id, pairs) ==
    IF pairs = <<>> THEN id
    ELSE LET next == GetSubcommand(parsers, id, Head(pairs)[1])
         IN  IF next = 0 THEN 0 ELSE Resolve(parsers, next, Tail(pairs))

----------------------------------------------------------------------------
(* SpecPath: task classes are registered, one after the other, on one root *)
(* parser                                                                  *)

InitPath ==
    /\ \E root \in RootParsers :
          cli = [status |-> "paths", parsers |-> <<root>>, error |-> NoneV]
    /\ tasks = [i \in TaskIds |-> LegacyTask({}, NoState, NoneV)]
    /\ pc = Idle
    /\ pending = NoPending
    /\ ret = NoRet
    /\ runs = NoRuns
    /\ trace = NoTrace
    /\ thrown = NoPending
    /\ captured = NoCapture
    /\ log = <<>>
    /\ call = NoCall
    /\ pipe = NoPipe
    /\ heap = NoHeap

\* cls.configure_command_parser(root) for one more class
ConfigureCommandParser ==
    /\ cli.status = "paths" /\ cli.error = NoneV
    /\ Len(log) < MaxConfigured
    /\ \E k \in PathClasses :
          LET r == ConfigureCommandParserOn(cli.parsers, k)
          IN  /\ cli' = [cli EXCEPT !.parsers = r.parsers, !.error = r.raised]
              /\ log' = Append(log, k)
    /\ UNCHANGED <<heap, tasks, pc, pending, ret, runs, trace, thrown, captured, call, pipe>>

NextPath == ConfigureCommandParser

SpecPath == InitPath /\ [][NextPath]_vars

----------------------------------------------------------------------------
(* Object identity in merge_object.  The state of a legacy task is None or  *)
(* a dict object; heap.ref names the object of each task, so that two      *)
(* tasks holding one dict can be told from two tasks holding equal dicts,  *)
(* and a write through one of them shows in the other.                     *)

NoDict == <<>>

\* the dict a task was constructed with: Task(state=d)
GivenDict(i) == <<"given", i>>

\* the dict "self.state = dict()" creates in a merge into task i
MadeDict(i) == <<"made", i>>

\* variant of StateObjectAfter in which the target takes the state object of
\* a Task source
StateObjectAfter_SourceDict(i, ref, obj, new) ==
    IF obj.kind = "task" /\ obj.ref # NoDict THEN obj.ref
    ELSE IF ref # NoDict THEN ref
    ELSE IF new.state.alloc THEN MadeDict(i) ELSE NoDict

\* the object that is the state of target i after merge_object: the pairs
\* named state are never applied, so it is the object it was, or, when it
\* was None and a name was inserted, a new dict
StateObjectAfter(i, ref, obj, new) ==
    IF ref # NoDict THEN ref
    ELSE IF new.state.alloc THEN MadeDict(i) ELSE NoDict

\* the caller's objects as merge_object leaves them: the source is read
\* through items(), _get_kwargs() or getattr, include is rebound, exclude is
\* united into a new set, overwrite is read through items()
CallerObjectsAfter(t, obj, include, exclude, overwrite) ==
    [obj |-> obj, include |-> include, exclude |-> exclude, overwrite |-> overwrite]

\* tasks merged into one another
FrameTasks(shape) ==
    IF shape = "modern"
    THEN {ModernTask({}, "False"),
          [ModernTask({"color"}, "False") EXCEPT !.attrs.foo = "v1"]}
    ELSE {LegacyTask({}, NoState, NoneV),
          [LegacyTask({"color"}, [alloc |-> TRUE, map |-> Put(EmptyMap, "color", "v1")], NoneV)
              EXCEPT !.attrs.foo = "v1"]}

FrameIncludes == {<<>>, <<{"foo", "bar"}>>}
FrameExcludes == {<<>>, <<{"bar"}>>}
FrameOverwrites == {<<>>, <<Put(EmptyMap, "color", NoneV)>>}
FrameMappings == {Put(EmptyMap, "bar", "v1")}

\* target i .merge_object(obj, ...): the target changes; a task whose state
\* is the dict object the target writes to sees the writes
FrameMerge(i, obj, include, exclude, overwrite) ==
    LET new == MergeObject(tasks[i], obj, include, exclude, overwrite)
        ref == StateObjectAfter(i, heap.ref[i], obj, new)
    IN  /\ tasks' = [k \in TaskIds |->
                        IF k = i THEN new
                        ELSE IF ref # NoDict /\ heap.ref[k] = ref
                             THEN [tasks[k] EXCEPT !.state = new.state]
                             ELSE tasks[k]]
        /\ heap' = [heap EXCEPT !.ref[i] = ref,
                                !.after = CallerObjectsAfter(tasks[i], obj, include,
                                                             exclude, overwrite)]
        /\ call' = [op |-> "merge", target |-> i, obj |-> obj, include |-> include,
                    exclude |-> exclude, overwrite |-> overwrite, before |-> tasks[i]]

----------------------------------------------------------------------------
(* SpecFrame: two tasks are constructed, each with its own state, and      *)
(* merged into one another and with mappings                               *)

InitFrame ==
    /\ \E shape \in {"modern", "legacy"} : tasks \in [TaskIds -> FrameTasks(shape)]
    /\ heap = [status |-> "on",
               ref |-> [i \in TaskIds |-> IF tasks[i].state.alloc THEN GivenDict(i) ELSE NoDict],
               after |-> CallerObjectsAfter(tasks[1], NoneSource, <<>>, <<>>, <<>>)]
    /\ pc = Idle
    /\ pending = NoPending
    /\ ret = NoRet
    /\ runs = NoRuns
    /\ trace = NoTrace
    /\ thrown = NoPending
    /\ captured = NoCapture
    /\ log = <<>>
    /\ call = NoCall
    /\ pipe = NoPipe
    /\ cli = NoCli

\* tasks[i].merge_object(tasks[j], include, exclude, overwrite)
FrameMergeTask ==
    /\ heap.status = "on" /\ Len(log) < MaxMerges
    /\ \E i \in TaskIds, j \in TaskIds, include \in FrameIncludes,
          exclude \in FrameExcludes, overwrite \in FrameOverwrites :
          /\ i # j
          /\ FrameMerge(i, [kind |-> "task", task |-> tasks[j], ref |-> heap.ref[j]],
                        include, exclude, overwrite)
          /\ log' = Append(log, <<"merge", i>>)
    /\ UNCHANGED <<cli, pc, pending, ret, runs, trace, thrown, captured, pipe>>

\* tasks[i].merge_object(mapping, include, exclude, overwrite)
FrameMergeDict ==
    /\ heap.status = "on" /\ Len(log) < MaxMerges
    /\ \E i \in TaskIds, m \in FrameMappings, include \in FrameIncludes,
          exclude \in FrameExcludes, overwrite \in FrameOverwrites :
          /\ FrameMerge(i, [kind |-> "dict", items |-> m], include, exclude, overwrite)
          /\ log' = Append(log, <<"merge", i>>)
    /\ UNCHANGED <<cli, pc, pending, ret, runs, trace, thrown, captured, pipe>>

NextFrame == FrameMergeTask \/ FrameMergeDict

SpecFrame == InitFrame /\ [][NextFrame]_vars

----------------------------------------------------------------------------
(* Observations used by the properties *)

\* every name a pair can carry
AllNames == {NameOrder[i] : i \in DOMAIN NameOrder}

\* what the task holds under a name: a field, else an entry of the free-form
\* state, else nothing
FieldValue(t, n) ==
    IF n \in DOMAIN t.attrs THEN t.attrs[n]
    ELSE IF t.state.alloc /\ n \in DOMAIN t.state.map THEN t.state.map[n]
    ELSE "absent"

Merged == call.op = "merge"

OverwriteNames == IF call.overwrite = <<>> THEN {} ELSE DOMAIN call.overwrite[1]

SourceNames == {p[1] : p \in {GenPairsFromObject(call.before.shape, call.obj)[i] :
                    i \in DOMAIN GenPairsFromObject(call.before.shape, call.obj)}}

\* the name is one the target takes from overwrite: a field it exposes
\* (modern), any name but the reserved ones (legacy)
Takes(t, n) ==
    IF t.shape = "modern" THEN n \in DOMAIN t.attrs ELSE n \notin {"result", "state"}

----------------------------------------------------------------------------
(* Merge properties, checked under SpecMerge *)

\* C1: with include and exclude both non-empty, merge_object leaves the target
\* exactly as the same call without include leaves it.
C1_IncludeIgnoredWhenExcludeGiven ==
    (Merged /\ SetGiven(call.include) /\ SetGiven(call.exclude))
        => tasks[1] = MergeObject(call.before, call.obj, <<>>, call.exclude, call.overwrite)

\* C1 witness: both sets non-empty, and a source name outside both was merged,
\* which a call honouring include would have dropped.
C1_Witness ==
    /\ Merged /\ SetGiven(call.include) /\ SetGiven(call.exclude)
    /\ call.overwrite = <<>>
    /\ \E n \in SourceNames \ (call.include[1] \cup call.exclude[1]) :
          FieldValue(tasks[1], n) # FieldValue(call.before, n)

\* C7 as stated: a permanently excluded name keeps its value through
\* merge_object whatever the caller passes.
C7_ExcludedNeverChanged ==
    Merged => \A n \in call.before.excl :
                 FieldValue(tasks[1], n) = FieldValue(call.before, n)

\* C7 amended: a permanently excluded name keeps its value through
\* merge_object for every source, include and exclude, unless overwrite
\* names it.
C7_ExcludedChangedOnlyByOverwrite ==
    Merged => \A n \in call.before.excl \ OverwriteNames :
                 FieldValue(tasks[1], n) = FieldValue(call.before, n)

\* C7 witness: the source carries a class-excluded name with a new value, the
\* caller passes neither include nor exclude, and the name keeps its value.
C7_Witness ==
    /\ Merged /\ call.include = <<>> /\ call.exclude = <<>> /\ call.overwrite = <<>>
    /\ call.obj.kind = "dict" /\ "color" \in call.before.excl
    /\ "color" \in DOMAIN call.obj.items
    /\ call.obj.items["color"] # FieldValue(call.before, "color")
    /\ FieldValue(tasks[1], "color") = FieldValue(call.before, "color")

\* C8 as stated: after merge_object the target holds overwrite's value for
\* every name of overwrite.
C8_OverwriteAlwaysHeld ==
    Merged => \A n \in OverwriteNames : FieldValue(tasks[1], n) = call.overwrite[1][n]

\* C8 amended: after merge_object the target holds overwrite's value for every
\* name of overwrite that the target takes (modern: a field it exposes; legacy:
\* any name but state and result), whatever the source, include and exclude;
\* a name it does not take leaves the target as the filtered merge left it.
C8_OverwriteHeldWhereTaken ==
    Merged =>
        \A n \in OverwriteNames :
            IF Takes(call.before, n)
            THEN FieldValue(tasks[1], n) = call.overwrite[1][n]
            ELSE FieldValue(tasks[1], n) = FieldValue(call.before, n)

\* C8 witness: overwrite names a field that the caller excluded and that the
\* source supplies with another value; the target holds overwrite's value.
C8_Witness ==
    /\ Merged /\ call.overwrite # <<>> /\ call.exclude # <<>>
    /\ call.obj.kind = "dict"
    /\ \E n \in OverwriteNames \cap call.exclude[1] \cap DOMAIN call.obj.items :
          /\ call.obj.items[n] # call.overwrite[1][n]
          /\ FieldValue(call.before, n) # call.overwrite[1][n]
          /\ FieldValue(tasks[1], n) = call.overwrite[1][n]

\* C9: merge_object(None, ...) changes nothing but what overwrite names: every
\* other name keeps its value, the free-form state stays unallocated unless
\* overwrite puts a name into it, and without overwrite the target is unchanged.
C9_NoneSourceChangesNothing ==
    (Merged /\ call.obj.kind = "none") =>
        /\ \A n \in AllNames \ OverwriteNames :
              FieldValue(tasks[1], n) = FieldValue(call.before, n)
        /\ (tasks[1].state.alloc /\ ~call.before.state.alloc)
              => \E n \in OverwriteNames : n \in DOMAIN tasks[1].state.map
        /\ tasks[1].res = call.before.res
        /\ tasks[1].excl = call.before.excl
        /\ (OverwriteNames = {}) => tasks[1] = call.before

\* C9 witness: None merged with include and exclude given and an overwrite
\* that changes one field.
C9_Witness ==
    /\ Merged /\ call.obj.kind = "none"
    /\ SetGiven(call.include) /\ call.exclude # <<>>
    /\ OverwriteNames = {"foo"}
    /\ tasks[1].attrs.foo = call.overwrite[1]["foo"]
    /\ tasks[1] # call.before

----------------------------------------------------------------------------
(* Lifecycle and chaining properties, checked under Spec *)

\* the task re-raises what _perform_task raises
Propagates(t) == t.shape = "modern" /\ Truthy(t.attrs.raise_exceptions)

Finished(i) == pc[i] = "Done" /\ runs[i] > 0

FullTraceReturn == <<"_preamble", "_perform_task", "_postamble", "return">>
FullTraceRaise == <<"_preamble", "_perform_task", "_postamble", "raise">>

\* C2: a run whose _perform_task raised, propagation not enabled, returns the
\* task's result object (not null) and its err is the raised error.
C2_CapturedErrorReturned ==
    \A i \in TaskIds :
        (Finished(i) /\ thrown[i] # NoneV /\ ~Propagates(tasks[i])) =>
            /\ ret[i] = [kind |-> "returned", val |-> "R"]
            /\ tasks[i].attrs.result = "R"
            /\ tasks[i].res.err = thrown[i]

\* C2 witness: a legacy task built without a result and a modern task with
\* propagation off have both failed and returned results carrying the errors.
C2_Witness ==
    \E i \in TaskIds :
        /\ Finished(i) /\ thrown[i] = "E2" /\ ~Propagates(tasks[i])
        /\ ret[i].kind = "returned" /\ tasks[i].res.err = "E2"
        /\ runs[i] = 1

\* C3: with raise_exceptions true, a run whose _perform_task raised calls
\* _postamble once, after _perform_task and before the error leaves run(),
\* and the error that leaves is the one _perform_task raised.
C3_CleanupBeforePropagation ==
    \A i \in TaskIds :
        /\ (Finished(i) /\ thrown[i] # NoneV /\ Propagates(tasks[i])) =>
              /\ trace[i] = FullTraceRaise
              /\ ret[i] = [kind |-> "raised", val |-> thrown[i]]
        /\ (pc[i] = "Propagating") =>
              /\ trace[i] = <<"_preamble", "_perform_task">>
              /\ ret[i].kind = "none"
              /\ pending[i] = thrown[i]

\* C3 witness: a propagating run has ended with the raised error outside.
C3_Witness ==
    \E i \in TaskIds :
        /\ Finished(i) /\ thrown[i] = "E1" /\ Propagates(tasks[i])
        /\ ret[i] = [kind |-> "raised", val |-> "E1"]
        /\ trace[i] = FullTraceRaise

\* C4: every run that gets past _preamble calls _preamble, _perform_task and
\* _postamble in this order, once each, and _postamble is the last hook before
\* run() returns or raises; a run in progress has called a prefix of them.
C4_HookOrder ==
    \A i \in TaskIds :
        /\ (Finished(i) /\ trace[i] # <<"_preamble", "raise">>) =>
              /\ trace[i] \in {FullTraceReturn, FullTraceRaise}
              /\ (trace[i] = FullTraceReturn) <=> (ret[i].kind = "returned")
        /\ (pc[i] = "PreambleRun") => trace[i] = <<"_preamble">>
        /\ (pc[i] \in {"Succeeded", "Failed", "Propagating"}) =>
              trace[i] = <<"_preamble", "_perform_task">>

\* C4 witness: one task has finished on the captured-failure path and another
\* on the propagated-failure path, after a first successful run.
C4_Witness ==
    \E i, j \in TaskIds :
        /\ Finished(i) /\ Finished(j) /\ runs[i] = 2
        /\ thrown[i] # NoneV /\ trace[i] = FullTraceReturn
        /\ thrown[j] # NoneV /\ trace[j] = FullTraceRaise

\* C6 as stated: result.err is populated only if some run of the task captured
\* an error of _perform_task, that is, with propagation not enabled.
C6_ErrOnlyWhenCaptured ==
    \A i \in TaskIds : (tasks[i].res.err # NoneV) => captured[i]

PipeOrder ==
    <<<<"merge", 1>>, <<"run", 1>>, <<"done", 1>>,
      <<"merge", 2>>, <<"run", 2>>, <<"done", 2>>>>

\* the fields a TaskResult declares
ResultFields == {"err", "foo"}

\* C10: acc | t_i merges the declared fields of acc into t_i with no include,
\* exclude or overwrite (a None on the left merges nothing), then runs t_i, and
\* evaluates to t_i's result; the stages are merged and run one after the
\* other, from left to right.
C10_ChainMergesThenRuns ==
    /\ Len(log) <= Len(PipeOrder)
    /\ log = SubSeq(PipeOrder, 1, Len(log))
    /\ \A i \in TaskIds :
          (pipe.status = "merged" /\ pipe.stage = i) =>
              /\ call.op = "merge" /\ call.target = i
              /\ call.obj = AccSource(pipe.acc)
              /\ call.include = <<>> /\ call.exclude = <<>> /\ call.overwrite = <<>>
              /\ \A j \in TaskIds : j < i => Finished(j)
              /\ pc[i] \in {"NotStarted", "Done"}
              /\ IF pipe.acc.null
                 THEN tasks[i] = call.before
                 ELSE /\ \A n \in ResultFields :
                            FieldValue(tasks[i], n) =
                                IF Takes(call.before, n) THEN call.obj.res[n] ELSE "absent"
                      /\ \A n \in AllNames \ ResultFields :
                            FieldValue(tasks[i], n) = FieldValue(call.before, n)
    /\ \A i \in TaskIds :
          (pipe.status \in {"on", "done"} /\ pipe.stage = i) =>
              /\ ret[i].kind = "returned"
              /\ pipe.acc.owner = i
              /\ pipe.acc.null <=> (tasks[i].attrs.result = NoneV)
              /\ ~pipe.acc.null => tasks[i].attrs.result = "R"

\* C10 witness: r | t1 | t2 has been evaluated; t1 took r's field, t2 took the
\* field t1's run stored in its result, and the value is t2's result.
C10_Witness ==
    /\ pipe.status = "done" /\ pipe.stage = 2
    /\ ~pipe.r.null
    /\ tasks[2].attrs.foo = PerformOutput
    /\ pipe.acc = [null |-> FALSE, owner |-> 2]
    /\ log = PipeOrder

----------------------------------------------------------------------------
(* Result properties, checked under SpecApi *)

\* C5 as stated: the task's result is a result object in every state, and
\* every run that returns, returns a result that is not null.
C5_ResultNeverNull ==
    /\ HasResultObject(tasks[1])
    /\ (Finished(1) /\ ret[1].kind = "returned") => ret[1].val # NoneV

\* the step is a merge_object call
MergeStep == Len(log') = Len(log) + 1

\* the step is a merge_object call whose overwrite names result
OverwritesResult ==
    /\ MergeStep
    /\ call'.overwrite # <<>>
    /\ "result" \in DOMAIN call'.overwrite[1]

\* the step is run() returning
ReturnStep == pc[1] # "Done" /\ pc'[1] = "Done" /\ ret'[1].kind = "returned"

\* C5 amended: a modern task's result is a result object after construction
\* and stays one through every run and every merge_object whose overwrite does
\* not name result; a legacy task's result is never changed by merge_object
\* and never goes back to null; a run that returns, returns the task's
\* result, which is a result object if it was one when the run began or
\* (legacy) if the run captured an error.
C5_ResultKeptUnlessOverwritten ==
    /\ [](tasks[1].shape = "modern" /\ Len(log) = 0 => HasResultObject(tasks[1]))
    /\ [][(tasks[1].shape = "modern" /\ HasResultObject(tasks[1]) /\ ~OverwritesResult)
             => HasResultObject(tasks'[1])]_vars
    /\ [][(tasks[1].shape = "legacy" /\ MergeStep)
             => /\ tasks'[1].attrs.result = tasks[1].attrs.result
                /\ tasks'[1].res = tasks[1].res]_vars
    /\ [][(tasks[1].shape = "legacy" /\ HasResultObject(tasks[1]))
             => HasResultObject(tasks'[1])]_vars
    /\ [][ReturnStep =>
             /\ ret'[1].val = tasks[1].attrs.result
             /\ tasks'[1].attrs.result = tasks[1].attrs.result
             /\ (tasks[1].shape = "legacy" /\ thrown[1] # NoneV) => ret'[1].val = "R"]_vars

\* C5 witness: a modern task took a dictionary naming result and an overwrite
\* naming another field, ran twice, and returned its result object; or a
\* legacy task built without a result captured an error and returned one.
C5_Witness ==
    /\ Finished(1) /\ ret[1] = [kind |-> "returned", val |-> "R"]
    /\ \/ /\ tasks[1].shape = "modern"
          /\ Merged /\ call.obj.kind = "dict" /\ "result" \in DOMAIN call.obj.items
          /\ call.overwrite # <<>> /\ "foo" \in DOMAIN call.overwrite[1]
          /\ runs[1] = 2
       \/ /\ tasks[1].shape = "legacy"
          /\ Len(log) = MaxMerges
          /\ thrown[1] # NoneV
          /\ runs[1] = 1

----------------------------------------------------------------------------
(* Properties of the names merged, checked under SpecMerge and SpecNames *)

\* the call's source is of a type _gen_pairs_from_object takes
SourceTaken == ~GenPairsRaises(call.before.shape, call.obj)

\* the pairs of the call's source
SourcePairs ==
    IF SourceTaken THEN GenPairsFromObject(call.before.shape, call.obj) ELSE <<>>

\* the names of the source's pairs that pass the filter
FilteredNames ==
    {SourcePairs[i][1] : i \in DOMAIN SourcePairs}
    \cap {n \in AllNames : ShouldMerge(call.before, n, call.include, call.exclude)}

\* the value the call applies last under name n: overwrite's, else that of
\* the last pair of the source with this name
LastValue(n) ==
    IF n \in OverwriteNames THEN call.overwrite[1][n]
    ELSE LET at == {i \in DOMAIN SourcePairs : SourcePairs[i][1] = n}
         IN  SourcePairs[CHOOSE i \in at : \A j \in at : j <= i][2]

\* C11: on a modern target merge_object sets a pair only on a field the target
\* already has: the target's fields stay the same set, a name the target does
\* not expose is dropped and holds nothing afterwards, every field named by no
\* applied pair keeps its value, and the call raises only for a source of an
\* unsupported type or for a name the target does expose (a method), never
\* for a name it does not expose.
C11_UnexposedNamesDropped ==
    (Merged /\ call.before.shape = "modern") =>
        LET fields == DOMAIN call.before.attrs
            applied == (FilteredNames \cup OverwriteNames) \cap fields
        IN  /\ DOMAIN tasks[1].attrs = fields
            /\ tasks[1].state = call.before.state
            /\ \A n \in AllNames \ fields : FieldValue(tasks[1], n) = "absent"
            /\ \A n \in fields \ applied : tasks[1].attrs[n] = call.before.attrs[n]
            /\ (call.raised = NoneV) =>
                  \A n \in applied : tasks[1].attrs[n] = LastValue(n)
            /\ (call.raised = "TypeError") <=> ~SourceTaken
            /\ (call.raised = "AttributeError") <=>
                  (SourceTaken /\ (FilteredNames \cup OverwriteNames) \cap MethodNames # {})
            /\ call.raised \in {NoneV, "TypeError", "AttributeError"}

\* C11 witness: {foo, bar} was merged onto a modern task whose fields do not
\* include bar: the call returned, foo took the value and there is no bar.
C11_Witness ==
    /\ Merged /\ call.before.shape = "modern"
    /\ call.obj.kind = "dict" /\ DOMAIN call.obj.items = {"foo", "bar"}
    /\ call.overwrite = <<>>
    /\ call.raised = NoneV
    /\ tasks[1].attrs.foo = "v1" /\ call.before.attrs.foo = DefaultFoo
    /\ FieldValue(tasks[1], "bar") = "absent"

C13_ReservedNamesNeverMerged ==
    (tasks[1].shape = "legacy") =>
        /\ {"state", "result"} \cap DOMAIN tasks[1].state.map = {}
        /\ tasks[1].attrs.result = tasks[2].attrs.result
        /\ tasks[1].res = tasks[2].res
        /\ tasks[1].state.alloc <=> (DOMAIN tasks[1].state.map # {})

\* C13 witness: after a task source carrying state and result, and an
\* overwrite naming a reserved name, twice over, the state holds other names.
C13_Witness ==
    /\ tasks[1].shape = "legacy" /\ Len(log) = MaxMerges
    /\ Merged /\ call.raised = NoneV
    /\ call.obj.kind = "task" /\ call.obj.task.state.alloc
    /\ OverwriteNames \cap {"state", "result"} # {}
    /\ tasks[1].state.alloc

\* C14 as stated: a source of no supported type makes merge_object raise
\* TypeError with the target untouched.
C14_UnsupportedSourceRaises ==
    (Merged /\ call.obj.kind \in {"slotted", "other"}) =>
        /\ call.raised = "TypeError"
        /\ tasks[1] = call.before

----------------------------------------------------------------------------
(* Command line properties, checked under SpecCli *)

RECURSIVE ConfigKeys(_)
\* the keys of a config, at every depth
ConfigKeys(config) ==
    IF config = <<>> THEN {}
    ELSE {Head(config).key} \cup ConfigKeys(Head(config).sub) \cup ConfigKeys(Tail(config))

\* the key is a tuple, or a CLI task class with command and description
LegalKey(k) ==
    \/ k.kind = "group"
    \/ k.kind = "clitask" /\ ~(k.command = "" \/ k.description = "")

\* the keys of the items that the frames of gen_cli_parser have not reached
KeysAhead ==
    UNION {ConfigKeys(cli.stack[i].items) : i \in DOMAIN cli.stack}

\* gen_cli_parser or gen_command_parser has returned
Built == cli.status \in {"built", "parsed", "dispatched", "returned"}

\* parse_args has been called on the parser gen_cli_parser returned
Parsed == cli.status \in {"parsed", "dispatched", "returned"} /\ cli.own = NoneV

\* C15 as stated: a config with a key that is neither a tuple nor a CLI task
\* class, at any depth, child config empty or not, makes gen_cli_parser raise
\* TypeError: the build does not return, and no other error comes of it.
C15_OtherKeyRaisesTypeError ==
    /\ Built => \A k \in ConfigKeys(cli.config) : k.kind \in {"group", "clitask"}
    /\ (cli.status = "raised") => cli.error \in {"TypeError", "ValueError"}

\* C16: a CLI task class without a command or without a description makes the
\* build raise ValueError when its key is reached, or when it is asked for its
\* own parser: no build returns with such a class in the config, no parser
\* ever has its function as func, and a build in progress has no such key
\* behind it.
C16_IncompleteTaskClassRejected ==
    /\ Built => /\ \A k \in ConfigKeys(cli.config) : k.kind = "clitask" => LegalKey(k)
                /\ cli.own # NoneV => LegalKey(ClassOf(cli.own))
    /\ \A id \in DOMAIN cli.parsers :
          cli.parsers[id].func \in {NoneV, "print_help"}
          \/ LegalKey(ClassOf(cli.parsers[id].func))
    /\ (cli.status = "building") =>
          \A k \in ConfigKeys(cli.config) :
              (k.kind = "clitask" /\ ~LegalKey(k)) => k \in KeysAhead
    /\ (cli.status = "raised" /\ cli.error = "ValueError") =>
          IF cli.own # NoneV THEN ~LegalKey(ClassOf(cli.own))
          ELSE LET k == Head(cli.stack[1].items).key
               IN  k.kind = "clitask" /\ ~LegalKey(k)

\* C16 witness: the build raised ValueError at a class without description,
\* one level down, after its parser was added and before func was set.
C16_Witness ==
    /\ cli.status = "raised" /\ cli.error = "ValueError"
    /\ cli.own = NoneV
    /\ Len(cli.stack) = 2
    /\ Head(cli.stack[1].items).key = NoDescriptionTask
    /\ \E id \in DOMAIN cli.parsers :
          /\ "nodesc" \in DOMAIN cli.parsers[id].choices
          /\ cli.parsers[cli.parsers[id].choices["nodesc"]].func = NoneV

\* a label names the key: its command or one of its aliases
Names_(k, label) == label \in {k.command} \cup k.aliases

NArgs(k) == IF k.kind = "clitask" THEN Len(k.args) ELSE 0

RECURSIVE ConfigWalk(_, _)
\* argv read against the config: at each level a label that names a key of
\* the level, followed by the arguments of that key's task class; the nodes
\* passed, or ok = FALSE
ConfigWalk(config, argv) ==
    IF argv = <<>> THEN [ok |-> TRUE, nodes |-> <<>>]
    ELSE LET hits == {i \in DOMAIN config : Names_(config[i].key, Head(argv))}
         IN  IF hits = {} THEN [ok |-> FALSE, nodes |-> <<>>]
             ELSE LET e == config[CHOOSE i \in hits : TRUE]
                      k == NArgs(e.key)
                  IN  IF Len(argv) - 1 < k THEN [ok |-> FALSE, nodes |-> <<>>]
                      ELSE LET w == ConfigWalk(e.sub, SubSeq(argv, k + 2, Len(argv)))
                           IN  [ok |-> w.ok,
                                nodes |-> <<[key |-> e.key, label |-> Head(argv),
                                             args |-> SubSeq(argv, 2, k + 1),
                                             leaf |-> e.sub = <<>>]>> \o w.nodes]

LegalConfig == \A k \in ConfigKeys(cli.config) : LegalKey(k)

\* C17: for a tree built from a legal config, an argv that spells a path from
\* the root to a leaf task class (by commands or aliases, the leaf's arguments
\* last) parses to the leaf's arguments, func bound to the leaf's class, and
\* subcommand the label typed for the leaf.
C17_LeafPathParsed ==
    (Parsed /\ LegalConfig) =>
        LET w == ConfigWalk(cli.config, cli.argv)
            leaf == w.nodes[Len(w.nodes)]
        IN  (w.ok /\ w.nodes # <<>> /\ leaf.leaf /\ leaf.key.kind = "clitask") =>
                /\ cli.ns.ok
                /\ cli.ns.fields.func = leaf.key.cls
                /\ cli.ns.fields.subcommand = leaf.label
                /\ \A i \in DOMAIN leaf.key.args :
                      cli.ns.fields[leaf.key.args[i]] = leaf.args[i]

\* C17 witness: {(("inv", "i"), ...): {FishTask: {}}} parsed with
\* ["i", "f", "v1"]: foo = v1, subcommand = f, func bound to FishTask.
C17_Witness ==
    /\ Parsed /\ cli.shape = "modern"
    /\ cli.config = <<Entry(GroupInv, <<Entry(FishTask, <<>>)>>)>>
    /\ cli.argv = <<"i", "f", "v1">>
    /\ cli.ns.ok
    /\ cli.ns.fields = [foo |-> "v1", subcommand |-> "f", func |-> "FishTask"]

\* C18: for a tree built from a legal config, parse_args accepts an argv
\* exactly if it spells a path from the root to a node of the config, group
\* or task, each label a command or alias of a child of the node before it.
C18_AcceptedPathsAreConfigPaths ==
    (Parsed /\ LegalConfig) => (cli.ns.ok <=> ConfigWalk(cli.config, cli.argv).ok)

\* C18 witness: the path to a group node is accepted, and so has been, in
\* another state, the path to a task below a task; here a label of a sibling
\* subtree was rejected.
C18_Witness ==
    /\ Parsed
    /\ cli.config = <<Entry(GroupInv, <<>>), Entry(WormsTask, <<Entry(FishTask, <<>>)>>)>>
    /\ cli.argv = <<"inv", "fish", "v1">>
    /\ ~cli.ns.ok

\* C19 as stated: the bound function removes func, merges every other field
\* of the namespace into the instance of the bound class by the merge rules,
\* runs the instance and returns its result.
C19_ArgsMergedIntoInstance ==
    (cli.status \in {"dispatched", "returned"}) =>
        /\ "func" \notin DOMAIN cli.bag
        /\ FieldValue(tasks[1], "func") = "absent"
        /\ \A n \in DOMAIN cli.bag :
              Takes(tasks[1], n) => FieldValue(tasks[1], n) = cli.bag[n]
        /\ (cli.status = "returned") =>
              cli.result = [kind |-> "returned", val |-> tasks[1].attrs.result]

\* C19 amended: the bound function removes func and runs an instance of the
\* bound class, returning what its run() returns.  Legacy: the other fields are
\* merged into the instance by the merge rules.  Modern: the namespace is
\* kept whole in the instance's field args and the instance's other fields
\* keep their defaults; the fields are merged, inside _perform_task, into a
\* new instance of the class's _task_cls if it has one, whose result is not
\* the one returned.  func is merged nowhere.
C19_NamespaceHandedToInstance ==
    (cli.status \in {"dispatched", "returned"}) =>
        /\ cli.bag = DelFunc(cli.ns.fields)
        /\ FieldValue(tasks[1], "func") = "absent"
        /\ FieldValue(tasks[2], "func") = "absent"
        /\ (cli.status = "returned") =>
              cli.result \in {[kind |-> "returned", val |-> tasks[1].attrs.result],
                              [kind |-> "raised", val |-> thrown[1]]}
        /\ IF cli.shape = "legacy"
           THEN /\ \A n \in DOMAIN cli.bag : FieldValue(tasks[1], n) = cli.bag[n]
                /\ tasks[2] = LegacyTask({}, NoState, NoneV)
                /\ (cli.status = "returned") => cli.result.kind = "returned"
           ELSE /\ tasks[1].attrs =
                      Put(ModernTask({}, ClassOf(cli.ns.fields.func).rexc).attrs, "args", "bag")
                /\ captured[2] => tasks[1].res.err = NoneV
                /\ (cli.status = "returned" /\ cli.result.kind = "returned") =>
                      cli.result.val = "R"
                /\ (pc[1] \in {"Succeeded", "Done"}
                       /\ ClassOf(cli.ns.fields.func).task_cls # NoneV) =>
                      \A n \in DOMAIN cli.bag :
                          FieldValue(tasks[2], n) =
                              IF Takes(tasks[2], n) THEN cli.bag[n] ELSE "absent"
                /\ (pc[1] \in {"NotStarted", "PreambleRun"}
                       \/ ClassOf(cli.ns.fields.func).task_cls = NoneV) =>
                      tasks[2] = ModernTask({}, "False")

\* C19 witness: modern FishTask was dispatched with foo = v1: the instance
\* kept its default foo, the task made by _gen_task took v1 and failed, and
\* the result returned is the instance's, without an error.
C19_Witness ==
    /\ cli.status = "returned" /\ cli.shape = "modern"
    /\ cli.ns.fields.func = "FishTask"
    /\ cli.bag = [foo |-> "v1", subcommand |-> "fish"]
    /\ tasks[1].attrs.foo = DefaultFoo
    /\ tasks[2].attrs.foo = "v1"
    /\ tasks[2].res.err = "E1"
    /\ cli.result = [kind |-> "returned", val |-> "R"]

\* C20: gen_cli_parser with an empty config returns with the parser as it
\* was given: no dispatcher, no choices, func and arguments as before, and
\* parse_args gives what the untouched parser gives, without a subcommand.
C20_EmptyConfigLeavesParser ==
    (cli.status # "off" /\ cli.status # "ready" /\ cli.config = <<>> /\ cli.own = NoneV) =>
        /\ cli.status # "raised"
        /\ cli.parsers = [q \in {RootId} |-> RootParser]
        /\ Parsed =>
              /\ cli.ns = ParseFrom([q \in {RootId} |-> RootParser], RootId, cli.argv)
              /\ "subcommand" \notin DOMAIN cli.ns.fields
              /\ cli.ns.ok <=> cli.argv = <<>>

\* C20 witness: after gen_cli_parser(root, {}) the empty argv parses to the
\* root's own default.
C20_Witness ==
    /\ Parsed /\ cli.config = <<>>
    /\ cli.argv = <<>>
    /\ cli.ns = [ok |-> TRUE, fields |-> [func |-> "print_help"]]

----------------------------------------------------------------------------
(* Filter properties, checked under SpecMerge *)

\* the members of an Optional[set]
Members(opt) == IF opt = <<>> THEN {} ELSE opt[1]

\* the value of the source's last pair named n
SourceValue(n) ==
    LET at == {i \in DOMAIN SourcePairs : SourcePairs[i][1] = n}
    IN  SourcePairs[CHOOSE i \in at : \A j \in at : j <= i][2]

\* the filter rule as the claim words it: outside the caller's exclude and
\* the class's permanent set, and in include when include is the active set
PassesFilter(t, n, include, exclude) ==
    LET active == Members(include) # {} /\ Members(exclude) = {}
    IN  /\ n \notin Members(exclude) \cup t.excl
        /\ ~active \/ n \in Members(include)
        /\ (t.shape = "modern") => n \in DOMAIN t.attrs

\* C21 as stated: a source pair is copied onto the target exactly if it
\* passes the filter (and, modern, the target exposes the name): a pair that
\* passes is held by the target after the call, one that does not leaves what
\* the target held under the name (names of overwrite set aside).
C21_CopiedIffPassesFilter ==
    Merged =>
        \A n \in SourceNames \ OverwriteNames :
            IF PassesFilter(call.before, n, call.include, call.exclude)
            THEN FieldValue(tasks[1], n) = SourceValue(n)
            ELSE FieldValue(tasks[1], n) = FieldValue(call.before, n)

\* C21 amended: as stated, with one more condition on a legacy target: the
\* name is neither state nor result.
C21_CopiedIffPassesFilterAndNotReserved ==
    Merged =>
        \A n \in SourceNames \ OverwriteNames :
            IF /\ PassesFilter(call.before, n, call.include, call.exclude)
               /\ (call.before.shape = "legacy") => n \notin {"state", "result"}
            THEN FieldValue(tasks[1], n) = SourceValue(n)
            ELSE FieldValue(tasks[1], n) = FieldValue(call.before, n)

\* C21 witness: the class excludes color for good, the caller lists color in
\* include, the source carries color: the target's color is not touched.
C21_Witness ==
    /\ Merged /\ call.before.shape = "modern"
    /\ "color" \in call.before.excl
    /\ call.include = <<{"color"}>> /\ call.exclude = <<>>
    /\ call.overwrite = <<>>
    /\ call.obj.kind = "dict" /\ call.obj.items = Put(EmptyMap, "color", "v1")
    /\ tasks[1].attrs.color = DefaultFoo

----------------------------------------------------------------------------
(* Legacy dispatch, checked under SpecCli *)

\* C22 as stated: after the legacy dispatch every parsed argument named like
\* a slot the task class declares, assigned by the constructor or not, is the
\* value of that field of the instance, and every other argument is an entry
\* of the instance's state.
C22_DeclaredFieldsStoredOnInstance ==
    (cli.status \in {"dispatched", "returned"} /\ cli.shape = "legacy") =>
        LET k == ClassOf(cli.ns.fields.func)
        IN  \A n \in DOMAIN cli.bag :
                IF n \in k.slots
                THEN /\ n \in DOMAIN tasks[1].attrs
                     /\ tasks[1].attrs[n] = cli.bag[n]
                     /\ n \notin DOMAIN tasks[1].state.map
                ELSE /\ tasks[1].state.alloc
                     /\ n \in DOMAIN tasks[1].state.map
                     /\ tasks[1].state.map[n] = cli.bag[n]

----------------------------------------------------------------------------
(* Task sources, checked under SpecMerge *)

\* no filter acts on the call: include and exclude are empty or None and the
\* class excludes nothing for good
Unfiltered ==
    /\ ~SetGiven(call.include) /\ ~SetGiven(call.exclude)
    /\ call.before.excl = {}

----------------------------------------------------------------------------
(* Path-based registration, checked under SpecPath *)

\* the label sequences that lead to a parser the registrations name: every
\* non-empty prefix of a registered class's full path
RegisteredPrefixes ==
    UNION {{[j \in 1..n |-> FullPath(log[i])[j][1]] : n \in 1..Len(FullPath(log[i]))} :
              i \in DOMAIN log}

\* C24 as stated: after any sequence of configure_command_parser calls on one
\* root parser no call has failed, the full path of every class registered
\* resolves from the root through get_subcommand, and there is one parser
\* for the root and one for each distinct label path registered.
C24_PathsResolveAndShared ==
    (cli.status = "paths") =>
        /\ cli.error = NoneV
        /\ \A i \in DOMAIN log : Resolve(cli.parsers, PathRoot, FullPath(log[i])) # 0
        /\ Len(cli.parsers) = 1 + Cardinality(RegisteredPrefixes)

----------------------------------------------------------------------------
(* Re-runs, checked under Spec *)

\* C25: no step of run() clears result.err or replaces the result object: a
\* result object stays the task's result and an err that is set stays set;
\* so a task that has captured an error has a result with an err, and a later
\* run of it that returns, returns this result.
C25_ErrorKeptAcrossRuns ==
    /\ [](\A i \in TaskIds :
             captured[i] =>
                 /\ HasResultObject(tasks[i])
                 /\ tasks[i].res.err \in Errs
                 /\ (pc[i] = "Done" /\ ret[i].kind = "returned") => ret[i].val = "R")
    /\ [][\A i \in TaskIds :
             /\ HasResultObject(tasks[i]) => HasResultObject(tasks'[i])
             /\ tasks[i].res.err \in Errs => tasks'[i].res.err \in Errs]_vars

\* C25 witness: the second run of a task completed normally and returned
\* the result, which still has the error the first run captured.
C25_Witness ==
    \E i \in TaskIds :
        /\ runs[i] = 2 /\ pc[i] = "Done" /\ pipe.status = "off"
        /\ captured[i] /\ thrown[i] = NoneV
        /\ trace[i] = FullTraceReturn
        /\ ret[i] = [kind |-> "returned", val |-> "R"]
        /\ tasks[i].res.err \in Errs
        /\ tasks[i].res.foo = PerformOutput

----------------------------------------------------------------------------
(* Errors of _preamble, checked under Spec *)

\* C26: a run whose _preamble raises ends there: the error leaves run(),
\* whatever raise_exceptions is, _perform_task and _postamble are not called
\* and the task, result.err included, is as it was; _postamble is called and
\* an error is captured only after _perform_task was called.
C26_PreambleErrorEscapes ==
    /\ [](\A i \in TaskIds :
             /\ (trace[i] # <<>> /\ trace[i][Len(trace[i])] = "raise"
                    /\ \A j \in DOMAIN trace[i] : trace[i][j] # "_perform_task") =>
                   /\ trace[i] = <<"_preamble", "raise">>
                   /\ pc[i] = "Done"
                   /\ ret[i].kind = "raised" /\ ret[i].val \in Errs
             /\ (\E j \in DOMAIN trace[i] : trace[i][j] = "_postamble") =>
                   (\E j \in DOMAIN trace[i] : trace[i][j] = "_perform_task"))
    /\ [][\A i \in TaskIds :
             /\ (runs'[i] # runs[i] /\ pc'[i] = "Done") =>
                   /\ trace'[i] = <<"_preamble", "raise">>
                   /\ ret'[i].kind = "raised" /\ ret'[i].val \in Errs
                   /\ tasks'[i] = tasks[i]
                   /\ captured'[i] = captured[i]
             /\ (captured'[i] # captured[i] \/ tasks'[i].res.err # tasks[i].res.err) =>
                   /\ pc[i] = "PreambleRun"
                   /\ trace'[i] = <<"_preamble", "_perform_task">>]_vars

\* C26 witness: the _preamble of a task that captures errors raised: the
\* error left run(), the trace ends after _preamble and err is empty.
C26_Witness ==
    \E i \in TaskIds :
        /\ pc[i] = "Done" /\ runs[i] = 1
        /\ ~Propagates(tasks[i])
        /\ trace[i] = <<"_preamble", "raise">>
        /\ ret[i].kind = "raised"
        /\ tasks[i].res.err = NoneV
        /\ ~captured[i]

----------------------------------------------------------------------------
(* Empty filters, checked under SpecMerge *)

\* an Optional[set] with the empty set replaced by None
AbsentIfEmpty(opt) == IF opt = <<{}>> THEN <<>> ELSE opt

\* C27: a call with an empty include or an empty exclude leaves the target
\* as the same call with None in its place does; with include empty and no
\* exclude, that is the target an unfiltered call gives.
C27_EmptyFilterIsAbsent ==
    Merged =>
        /\ tasks[1] = MergeObject(call.before, call.obj, AbsentIfEmpty(call.include),
                                  call.exclude, call.overwrite)
        /\ tasks[1] = MergeObject(call.before, call.obj, call.include,
                                  AbsentIfEmpty(call.exclude), call.overwrite)
        /\ (call.include = <<{}>> /\ Members(call.exclude) = {}) =>
              tasks[1] = MergeObject(call.before, call.obj, <<>>, <<>>, call.overwrite)

\* C27 witness: merge_object({foo: v1}, include=set()) set foo.
C27_Witness ==
    /\ Merged
    /\ call.include = <<{}>> /\ call.exclude = <<>> /\ call.overwrite = <<>>
    /\ call.obj.kind = "dict" /\ call.obj.items = Put(EmptyMap, "foo", "v1")
    /\ call.before.attrs.foo = DefaultFoo
    /\ tasks[1].attrs.foo = "v1"

----------------------------------------------------------------------------
(* Failures in a chain, checked under Spec *)

\* the result left of "|" carries an error
LeftFailed == ~pipe.acc.null /\ AccSource(pipe.acc).res.err \in Errs

\* the merge of the stage that is being evaluated took a result with an error
MergedAfterFailure(i) ==
    /\ pipe.stage = i
    /\ call.op = "merge" /\ call.target = i
    /\ call.obj.kind = "result" /\ call.obj.res.err \in Errs

\* C28: a result with an error on the left does not stop the chain: the merge
\* of the next task can take place and its run can start; the merge leaves
\* the task's result alone and puts the left err nowhere in a modern task and
\* under the key err of a legacy task's state; after the run the task's err
\* is its own: the error its _perform_task raised, else what it was.  The
\* chain is abandoned only when a run() raises.
C28_ChainGoesOnAfterFailure ==
    /\ (pipe.status = "aborted") => ret[pipe.stage].kind = "raised"
    /\ \A i \in TaskIds :
          /\ (pipe.status = "on" /\ pipe.stage = i - 1 /\ LeftFailed) =>
                ENABLED RorMerge(i)
          /\ (pipe.status = "merged" /\ MergedAfterFailure(i)) =>
                /\ tasks[i].res = call.before.res
                /\ tasks[i].attrs.result = call.before.attrs.result
                /\ IF tasks[i].shape = "modern"
                   THEN FieldValue(tasks[i], "err") = "absent"
                   ELSE /\ tasks[i].state.alloc
                        /\ "err" \in DOMAIN tasks[i].state.map
                        /\ tasks[i].state.map["err"] = call.obj.res.err
                /\ (runs[i] < MaxRuns) =>
                      ENABLED (RunPreamble(i) \/ RunPreambleRaises(i))
          /\ (pipe.status \in {"running", "on", "done", "aborted"}
                 /\ MergedAfterFailure(i) /\ pc[i] = "Done") =>
                tasks[i].res.err =
                    IF thrown[i] # NoneV THEN thrown[i] ELSE call.before.res.err

\* C28 witness: t1 failed and its error was captured; t2, a legacy task, was
\* merged and run all the same and the chain is done: t1's error is in t2's
\* state under err, and t2's own result has no error.
C28_Witness ==
    /\ pipe.status = "done" /\ pipe.stage = 2
    /\ tasks[2].shape = "legacy"
    /\ captured[1] /\ tasks[1].res.err \in Errs
    /\ MergedAfterFailure(2)
    /\ tasks[2].state.alloc /\ tasks[2].state.map["err"] = tasks[1].res.err
    /\ tasks[2].attrs.result = "R" /\ tasks[2].res.err = NoneV
    /\ ret[2] = [kind |-> "returned", val |-> "R"]

----------------------------------------------------------------------------
(* Frame of merge_object, checked under SpecFrame *)

----------------------------------------------------------------------------
(* The result of a modern dispatch, checked under SpecCli *)

\* the task made by _gen_task raised in _perform_task and captured the error
InnerFailedCaptured == captured[2] /\ ~Propagates(tasks[2])

\* C30: in the modern shape what dispatch returns is the result of the CLI
\* task instance itself; the result of the task made by _gen_task is dropped.
\* When that task fails in _perform_task with propagation disabled on it, the
\* error is in its own result only: the instance goes on as after a success,
\* its result's err stays None and dispatch returns that result without
\* raising, whether raise_exceptions of the instance is set or not.
C30_InnerErrorStaysInInnerResult ==
    (cli.status \in {"dispatched", "returned"} /\ cli.shape = "modern") =>
        /\ (cli.status = "returned" /\ cli.result.kind = "returned") =>
              /\ cli.result.val = tasks[1].attrs.result
              /\ HasResultObject(tasks[1])
        /\ InnerFailedCaptured =>
              /\ thrown[2] \in Errs
              /\ tasks[2].res.err = thrown[2]
              /\ tasks[1].res.err = NoneV
              /\ pending[1] = NoneV /\ thrown[1] = NoneV
              /\ pc[1] \in {"Succeeded", "Done"}
              /\ (cli.status = "returned") =>
                    cli.result = [kind |-> "returned", val |-> tasks[1].attrs.result]

\* C30 witness: a CLI task class with raise_exceptions set was dispatched, the
\* task it made took foo = v1 and captured E2, and dispatch returned the
\* instance's result without an error.
C30_Witness ==
    /\ cli.status = "returned" /\ cli.shape = "modern"
    /\ cli.ns.fields.func = "RaisingFishTask"
    /\ Propagates(tasks[1])
    /\ InnerFailedCaptured
    /\ tasks[2].attrs.foo = "v1"
    /\ tasks[2].res.err = "E2"
    /\ tasks[1].res.err = NoneV
    /\ cli.result = [kind |-> "returned", val |-> "R"]

====
